---- MODULE Spec2Model ----
(***************************************************************************)
(* The personalization workflow engine of src/app.py: the preparation flow *)
(* of a request (FetchData, AnalyzeCompany, DecidePagesToPers,             *)
(* ParallelProcessing) with its retry policy                               *)
(* (handle_error_preparation_process), the per-page LangGraph workflow     *)
(* (DecideComponentsToPers, Router, PersTexts, PersImages, PersElmtOrder,  *)
(* SavePersPage) with its retry/abort policy                               *)
(* (handle_error_personalization_process), and the document store.         *)
(*                                                                         *)
(* Python objects are modelled by reference where the code shares them:    *)
(* a page dict is an entry of pageObj, a block dict is an entry of blk     *)
(* (keyed by page and uid), and a block list is a sequence of uids.        *)
(* A LangGraph state key that was never written is absent from the dict a  *)
(* node receives, so reading it raises KeyError: has_queue records whether *)
(* "personalization_queue" has been written.                               *)
(***************************************************************************)
EXTENDS Integers, Sequences, FiniteSets, TLC

\* ------------------------------------------------------------------ bounds
\* Number of page workflows a fan-out launches at most (and of page_list entries).
NPages == 2
\* Longest personalization_list the component decision answers with.
MaxSteps == 2
\* Longest block_order, titles and block_uids a completion answers with.
MaxListLen == 2

\* ------------------------------------------------------------- input domains
Workflows == 1..NPages
PageIds == 1..NPages

\* Block uids of a page, in the page's initial order, and a uid the model invents.
AllUids == <<"u1", "u2", "u3">>
InventedUid == "ux"
InitialBlocks(n) == SubSeq(AllUids, 1, n)

\* state["asset_list"]["assets"]: two assets share the title Photo-A.
Catalog ==
  << [uid |-> "a1", title |-> "Photo-A"],
     [uid |-> "a2", title |-> "Photo-B"],
     [uid |-> "a3", title |-> "Photo-A"] >>
NoImage == [uid |-> "none", title |-> "none"]
UnknownTitle == "Photo-X"
CatalogTitles == {Catalog[i].title : i \in 1..Len(Catalog)}

\* Entries the component decision may name: the four the Router knows and one it does not.
KnownSteps == {"text", "image", "order", "save"}
UnknownStep == "video"

\* The customers requests are made for.
CustomerUid == "cust-1"
OtherCustomerUid == "cust-2"

SeqsUpTo(S, n) == UNION {[1..k -> S] : k \in 0..n}
Range(s) == {s[i] : i \in 1..Len(s)}

VARIABLES
  prep,        \* PreparationState of the request, the node the preparation flow is at (pc), and counters
  pc,          \* pc[w]: the node page workflow w is at
  queue,       \* state["personalization_queue"] of workflow w
  has_queue,   \* whether workflow w's state holds the key personalization_queue
  retry,       \* state["is_retry_step"] of workflow w
  page,        \* state["page_to_personalize"] of workflow w: a reference to a page dict, or {"Error": message}
  local,       \* locals of a node suspended at an await or between two store calls
  pageObj,     \* the page dicts (entries of page_list): title, block list, customer_uid
  blk,         \* the block dicts: blk[p][uid] = [title, copy, image]
  store,       \* the "pages" collection of the document store
  hist         \* history of each workflow, for stating the properties

vars == <<prep, pc, queue, has_queue, retry, page, local, pageObj, blk, store, hist>>

\* ------------------------------------------------------------ state shapes
PageRef(p) == [Error |-> FALSE, ref |-> p, msg |-> ""]
ErrorRecord(m) == [Error |-> TRUE, ref |-> 0, msg |-> m]

NoLocal ==
  [ block_list |-> <<>>,   \* PersTexts: the block list read at line 404
    prompts |-> <<>>,      \* PersTexts: what each started completion was prompted with
    results |-> <<>>,      \* PersTexts: the text of each finished completion, by block index
    finished |-> <<>>,     \* PersTexts: the block indexes in the order their completions finished
    count |-> 0 ]          \* SavePersPage: the result of count_documents

NoSnapshot == [blocks |-> <<>>, content |-> <<>>, queue |-> <<>>]

NoHist ==
  [ initQ |-> <<>>,        \* the queue as DecideComponentsToPers created it
    attempts |-> <<>>,     \* every node attempt so far: [step, ok, wasRetry]
    routed |-> <<>>,       \* the queue heads the Router dispatched on, in order
    pre |-> NoSnapshot,    \* the page and queue as the last attempt found them
    first |-> NoSnapshot,  \* ... as the first attempt of the step last attempted found them
    resp |-> <<>>,         \* the completion's answer in the last attempt (<<>> if it raised)
    raised |-> FALSE ]     \* whether the completion of the last attempt raised

\* One attempt of a node: its name, whether it succeeded, and is_retry_step when it began.
Attempt(s, ok, r) == [step |-> s, ok |-> ok, wasRetry |-> r]

OrigBlock(u) == [title |-> "title_" \o u, copy |-> "copy_" \o u, image |-> NoImage]


\* ------------------------------------------------------- the retry/abort policy
\* Mutant: the is_retry_step test is lost, every failure is treated as a first one.
handle_error_always_retries(w, m) ==
  /\ retry' = [retry EXCEPT ![w] = TRUE]
  /\ UNCHANGED <<queue, has_queue, page>>

\* Mutant: a first failure skips the failed step instead of repeating it.
handle_error_skips_step(w, m) ==
  IF retry[w]
  THEN /\ queue' = [queue EXCEPT ![w] = <<>>]
       /\ has_queue' = [has_queue EXCEPT ![w] = TRUE]
       /\ page' = [page EXCEPT ![w] = ErrorRecord(m)]
       /\ UNCHANGED retry
  ELSE /\ retry' = [retry EXCEPT ![w] = TRUE]
       /\ queue' = [queue EXCEPT ![w] = IF @ = <<>> THEN @ ELSE Tail(@)]
       /\ UNCHANGED <<has_queue, page>>

\* handle_error_personalization_process(state, error_message)
handle_error_personalization_process(w, m) ==
  IF retry[w]
  THEN /\ queue' = [queue EXCEPT ![w] = <<>>]
       /\ has_queue' = [has_queue EXCEPT ![w] = TRUE]
       /\ page' = [page EXCEPT ![w] = ErrorRecord(m)]
       /\ UNCHANGED retry
  ELSE /\ retry' = [retry EXCEPT ![w] = TRUE]
       /\ UNCHANGED <<queue, has_queue, page>>

\* Mutant: the successful step puts its own name back at the end of the queue.
PopAndRequeue(w) ==
  /\ queue' = [queue EXCEPT ![w] = Append(Tail(queue[w]), Head(queue[w]))]
  /\ retry' = [retry EXCEPT ![w] = FALSE]
  /\ UNCHANGED <<has_queue, page>>

\* Mutant: a successful step pops its name and leaves is_retry_step as it is.
PopKeepingFlag(w) ==
  /\ queue' = [queue EXCEPT ![w] = Tail(queue[w])]
  /\ UNCHANGED <<retry, has_queue, page>>

\* The end of a successful text, image or order step: pop the head, clear the flag.
PopAndClear(w) ==
  /\ queue' = [queue EXCEPT ![w] = Tail(queue[w])]
  /\ retry' = [retry EXCEPT ![w] = FALSE]
  /\ UNCHANGED <<has_queue, page>>

\* The page and queue of workflow w as a node finds them.
Snapshot(w) ==
  [ blocks |-> pageObj[page[w].ref].blocks,
    content |-> blk[page[w].ref],
    queue |-> queue[w] ]

RecordAttempt(w, s, ok, r, exc) ==
  hist' = [hist EXCEPT ![w].attempts = Append(@, Attempt(s, ok, retry[w])),
                       ![w].pre = Snapshot(w),
                       ![w].first = IF retry[w] THEN @ ELSE Snapshot(w),
                       ![w].resp = r,
                       ![w].raised = exc,
                       ![w].initQ = IF s = "decide" /\ ok THEN Append(r, "save") ELSE @]

\* An attempt whose completion answered r.
Record(w, s, ok, r) == RecordAttempt(w, s, ok, r, FALSE)

\* An attempt that ended in an exception before any answer was used.
RecordRaise(w, s) == RecordAttempt(w, s, FALSE, <<>>, TRUE)

\* ------------------------------------------------------ DecideComponentsToPers
\* The completion raised: line 378.
DecideComponentsRaise(w) ==
  /\ pc[w] = "DecideComponentsToPers"
  /\ handle_error_personalization_process(w, "decide: exception")
  /\ RecordRaise(w, "decide")
  /\ pc' = [pc EXCEPT ![w] = "Router"]
  /\ UNCHANGED <<prep, local, pageObj, blk, store>>

\* The completion answered personalization_list = l.
DecideComponents(w, l) ==
  /\ pc[w] = "DecideComponentsToPers"
  /\ IF l # <<>>
     THEN /\ queue' = [queue EXCEPT ![w] = Append(l, "save")]
          /\ has_queue' = [has_queue EXCEPT ![w] = TRUE]
          /\ Record(w, "decide", TRUE, l)
          /\ UNCHANGED <<retry, page>>
     ELSE /\ handle_error_personalization_process(w, "decide: no components")
          /\ Record(w, "decide", FALSE, <<>>)
  /\ pc' = [pc EXCEPT ![w] = "Router"]
  /\ UNCHANGED <<prep, local, pageObj, blk, store>>

\* ---------------------------------------------------------------------- Router
\* The node a queue head is matched to; an unmatched head leaves goto unbound.
Goto(head) ==
  CASE head = "text" -> "PersTexts"
    [] head = "image" -> "PersImages"
    [] head = "order" -> "PersElmtOrder"
    [] head = "save" -> "SavePersPage"
    [] OTHER -> "raised"

personalization_router_node(w) ==
  /\ pc[w] = "Router"
  /\ IF ~has_queue[w]
     THEN \* KeyError: the state has no personalization_queue
          /\ pc' = [pc EXCEPT ![w] = "raised"]
          /\ UNCHANGED hist
     ELSE IF queue[w] # <<>>
     THEN /\ pc' = [pc EXCEPT ![w] = Goto(Head(queue[w]))]
          /\ hist' = [hist EXCEPT ![w].routed = Append(@, Head(queue[w]))]
     ELSE /\ pc' = [pc EXCEPT ![w] = "end"]
          /\ UNCHANGED hist
  /\ UNCHANGED <<prep, queue, has_queue, retry, page, local, pageObj, blk, store>>

\* ------------------------------------------------------------------- PersTexts
\* Lines 415-417: write the generated texts back, block by block, in list order.
RECURSIVE WriteTexts(_, _, _, _)
WriteTexts(b, bl, texts, k) ==
  IF k = 0 THEN b
  ELSE LET prev == WriteTexts(b, bl, texts, k - 1)
       IN [prev EXCEPT ![bl[k]].copy = texts[k].copytext,
                       ![bl[k]].title = texts[k].title]

\* Lines 404-412: read the block list, issue one completion per block, await the gather.
personalize_texts_begin(w) ==
  /\ pc[w] = "PersTexts"
  /\ local' = [local EXCEPT ![w].block_list = pageObj[page[w].ref].blocks]
  /\ pc' = [pc EXCEPT ![w] = "PersTextsGather"]
  /\ UNCHANGED <<prep, queue, has_queue, retry, page, pageObj, blk, store, hist>>

\* The gather raised (one of the completions failed): line 429.
personalize_texts_raise(w) ==
  /\ pc[w] = "PersTextsGather"
  /\ handle_error_personalization_process(w, "text: exception")
  /\ RecordRaise(w, "text")
  /\ pc' = [pc EXCEPT ![w] = "Router"]
  /\ local' = [local EXCEPT ![w] = NoLocal]
  /\ UNCHANGED <<prep, pageObj, blk, store>>

\* The gather returned texts, one per block of block_list: lines 414-427.
personalize_texts_node(w, texts) ==
  /\ pc[w] = "PersTextsGather"
  /\ DOMAIN texts = 1..Len(local[w].block_list)
  /\ LET p == page[w].ref
         bl == local[w].block_list
     IN /\ blk' = [blk EXCEPT ![p] = WriteTexts(blk[p], bl, texts, Len(bl))]
        /\ pageObj' = [pageObj EXCEPT ![p].blocks = bl]
  /\ PopAndClear(w)
  /\ Record(w, "text", TRUE, texts)
  /\ pc' = [pc EXCEPT ![w] = "Router"]
  /\ local' = [local EXCEPT ![w] = NoLocal]
  /\ UNCHANGED <<prep, store>>

\* personalize_text, lines 436-438: the coroutine of block i starts and formats its
\* prompt with the block list and its block as they are at that moment.
personalize_text_prompt(w, i) ==
  /\ pc[w] = "PersTextsGather"
  /\ i \in (1..Len(local[w].block_list)) \ DOMAIN local[w].prompts
  /\ local' = [local EXCEPT ![w].prompts =
                 @ @@ (i :> [block_list |-> local[w].block_list,
                             block |-> local[w].block_list[i],
                             content |-> blk[page[w].ref]])]
  /\ UNCHANGED <<prep, pc, queue, has_queue, retry, page, pageObj, blk, store, hist>>

\* personalize_text, lines 438-447: the completion of block i answers with text; the
\* completions of one page finish in any order.
personalize_text(w, i, text) ==
  /\ pc[w] = "PersTextsGather"
  /\ i \in DOMAIN local[w].prompts \ DOMAIN local[w].results
  /\ local' = [local EXCEPT ![w].results = @ @@ (i :> text),
                            ![w].finished = Append(@, i)]
  /\ UNCHANGED <<prep, pc, queue, has_queue, retry, page, pageObj, blk, store, hist>>

\* Mutant: the results are taken in the order the completions finished.
GatheredAsCompleted(w) ==
  [k \in 1..Len(local[w].finished) |-> local[w].results[local[w].finished[k]]]

\* Line 412: asyncio.gather returns the results in the order of its arguments,
\* whatever order the completions finished in.
Gathered(w) ==
  [i \in 1..Len(local[w].block_list) |-> local[w].results[i]]

\* Lines 412-427 once every completion has finished: the gather returns and the
\* texts are written back.
personalize_texts_gathered(w) ==
  /\ DOMAIN local[w].results = 1..Len(local[w].block_list)
  /\ personalize_texts_node(w, Gathered(w))

\* ------------------------------------------------------------------ PersImages
\* Lines 477-480: the first asset of the catalog with the title, if any.
RECURSIVE FirstAsset(_, _)
FirstAsset(title, i) ==
  IF i > Len(Catalog) THEN <<>>
  ELSE IF Catalog[i].title = title THEN <<Catalog[i]>>
  ELSE FirstAsset(title, i + 1)

\* Lines 475-480: image_details, the assets of the titles that resolve, in order.
RECURSIVE ImageDetails(_)
ImageDetails(titles) ==
  IF titles = <<>> THEN <<>>
  ELSE FirstAsset(Head(titles), 1) \o ImageDetails(Tail(titles))

\* Lines 483-488: block_details, the blocks of the uids that resolve, in order.
RECURSIVE BlockDetails(_, _)
BlockDetails(block_uids, blocks) ==
  IF block_uids = <<>> THEN <<>>
  ELSE (IF Head(block_uids) \in Range(blocks) THEN <<Head(block_uids)>> ELSE <<>>)
       \o BlockDetails(Tail(block_uids), blocks)

\* Lines 492-493: the first k assignments block["block"]["image"] = image_details[index].
RECURSIVE AssignImages(_, _, _, _)
AssignImages(b, bd, id, k) ==
  IF k = 0 THEN b
  ELSE [AssignImages(b, bd, id, k - 1) EXCEPT ![bd[k]].image = id[k]]

\* The completion raised: line 503.
personalize_images_raise(w) ==
  /\ pc[w] = "PersImages"
  /\ handle_error_personalization_process(w, "image: exception")
  /\ RecordRaise(w, "image")
  /\ pc' = [pc EXCEPT ![w] = "Router"]
  /\ UNCHANGED <<prep, local, pageObj, blk, store>>

\* Mutant: the test that some block resolved is lost, so a response none of whose
\* uids resolves completes the step with nothing placed.
personalize_images_unchecked(w, titles, block_uids) ==
  /\ pc[w] = "PersImages"
  /\ LET p == page[w].ref
         id == ImageDetails(titles)
         bd == BlockDetails(block_uids, pageObj[p].blocks)
     IN IF Len(bd) <= Len(id)
        THEN /\ blk' = [blk EXCEPT ![p] = AssignImages(blk[p], bd, id, Len(bd))]
             /\ PopAndClear(w)
             /\ Record(w, "image", TRUE, <<titles, block_uids>>)
        ELSE /\ blk' = [blk EXCEPT ![p] = AssignImages(blk[p], bd, id, Len(id))]
             /\ handle_error_personalization_process(w, "image: exception")
             /\ Record(w, "image", FALSE, <<titles, block_uids>>)
  /\ pc' = [pc EXCEPT ![w] = "Router"]
  /\ UNCHANGED <<prep, local, pageObj, store>>

\* The completion answered titles and block_uids: lines 474-505.
personalize_images_node(w, titles, block_uids) ==
  /\ pc[w] = "PersImages"
  /\ LET p == page[w].ref
         id == ImageDetails(titles)
         bd == BlockDetails(block_uids, pageObj[p].blocks)
     IN IF Len(bd) # 0
        THEN IF Len(bd) <= Len(id)
             THEN /\ blk' = [blk EXCEPT ![p] = AssignImages(blk[p], bd, id, Len(bd))]
                  /\ PopAndClear(w)
                  /\ Record(w, "image", TRUE, <<titles, block_uids>>)
             ELSE \* image_details[index] raises IndexError after Len(id) assignments
                  /\ blk' = [blk EXCEPT ![p] = AssignImages(blk[p], bd, id, Len(id))]
                  /\ handle_error_personalization_process(w, "image: exception")
                  /\ Record(w, "image", FALSE, <<titles, block_uids>>)
        ELSE /\ handle_error_personalization_process(w, "image: do not exist")
             /\ Record(w, "image", FALSE, <<titles, block_uids>>)
             /\ UNCHANGED blk
  /\ pc' = [pc EXCEPT ![w] = "Router"]
  /\ UNCHANGED <<prep, local, pageObj, store>>

\* --------------------------------------------------------------- PersElmtOrder
\* Lines 532-536: for each uid of the order, the block of the stripped list with that uid.
RECURSIVE Matched(_, _)
Matched(block_order, stripped_block_list) ==
  IF block_order = <<>> THEN <<>>
  ELSE (IF Head(block_order) \in Range(stripped_block_list)
        THEN <<Head(block_order)>> ELSE <<>>)
       \o Matched(Tail(block_order), stripped_block_list)

\* Mutant: the first block is not stripped from the list the uids are looked up in.
UpdatedBlockListUnstripped(blocks, block_order) ==
  <<Head(blocks)>> \o Matched(block_order, blocks)

\* Lines 516-517 and 529-536: updated_block_list.
UpdatedBlockList(blocks, block_order) ==
  <<Head(blocks)>> \o Matched(block_order, Tail(blocks))

\* The completion raised: line 548.
personalize_element_order_raise(w) ==
  /\ pc[w] = "PersElmtOrder"
  /\ handle_error_personalization_process(w, "order: exception")
  /\ RecordRaise(w, "order")
  /\ pc' = [pc EXCEPT ![w] = "Router"]
  /\ UNCHANGED <<prep, local, pageObj, blk, store>>

\* Mutant: the reordered list is rebuilt from the stripped blocks the prompt was
\* given, which carry no copy text.
personalize_element_order_rebuilds(w, block_order) ==
  /\ pc[w] = "PersElmtOrder"
  /\ LET p == page[w].ref
     IN IF block_order # <<>>
        THEN /\ pageObj' = [pageObj EXCEPT ![p].blocks = UpdatedBlockList(@, block_order)]
             /\ blk' = [blk EXCEPT ![p] =
                          [u \in DOMAIN @ |->
                             IF u \in Range(Matched(block_order, Tail(pageObj[p].blocks)))
                             THEN [@[u] EXCEPT !.copy = ""] ELSE @[u]]]
             /\ PopAndClear(w)
             /\ Record(w, "order", TRUE, block_order)
        ELSE /\ handle_error_personalization_process(w, "order: no block uids")
             /\ Record(w, "order", FALSE, block_order)
             /\ UNCHANGED <<pageObj, blk>>
  /\ pc' = [pc EXCEPT ![w] = "Router"]
  /\ UNCHANGED <<prep, local, store>>

\* The completion answered block_order: lines 526-546.
personalize_element_order_node(w, block_order) ==
  /\ pc[w] = "PersElmtOrder"
  /\ LET p == page[w].ref
     IN IF block_order # <<>>
        THEN /\ pageObj' = [pageObj EXCEPT ![p].blocks = UpdatedBlockList(@, block_order)]
             /\ PopAndClear(w)
             /\ Record(w, "order", TRUE, block_order)
        ELSE /\ handle_error_personalization_process(w, "order: no block uids")
             /\ Record(w, "order", FALSE, block_order)
             /\ UNCHANGED pageObj
  /\ pc' = [pc EXCEPT ![w] = "Router"]
  /\ UNCHANGED <<prep, local, blk, store>>

\* ---------------------------------------------------------------- SavePersPage
\* The document insert_one / replace_one writes: the page dict as it is then.
Document(p) ==
  [ title |-> pageObj[p].title,
    url |-> pageObj[p].url,
    customer_uid |-> pageObj[p].customer_uid,
    blocks |-> pageObj[p].blocks,
    content |-> blk[p],
    _id |-> pageObj[p]._id ]

\* A document some earlier version of the program saved: it carries a key ("seo")
\* the pages of this version do not.
LegacyDocument(title) ==
  [ title |-> title, url |-> "/legacy", customer_uid |-> OtherCustomerUid,
    blocks |-> <<>>, content |-> <<>>, _id |-> 1, seo |-> "legacy" ]

\* collection.count_documents({'title': title})
CountDocuments(title) == Cardinality({i \in 1..Len(store) : store[i].title = title})

\* The position of the first document with the title (0 if there is none).
FirstMatch(title) ==
  IF \E i \in 1..Len(store) : store[i].title = title
  THEN CHOOSE i \in 1..Len(store) :
         /\ store[i].title = title
         /\ \A j \in 1..(i - 1) : store[j].title # title
  ELSE 0

\* Mutant: replace_one as an update that sets the keys of doc and keeps the others.
ReplaceOneMerging(title, doc) ==
  IF FirstMatch(title) # 0
  THEN [store EXCEPT ![FirstMatch(title)] =
          [k \in DOMAIN @ \cup DOMAIN doc |->
             IF k = "_id" THEN @[k] ELSE IF k \in DOMAIN doc THEN doc[k] ELSE @[k]]]
  ELSE store

\* collection.replace_one({'title': title}, doc): the first match is replaced by
\* doc whole; it keeps its _id.
ReplaceOne(title, doc) ==
  IF FirstMatch(title) # 0
  THEN LET old == store[FirstMatch(title)]
       IN [store EXCEPT ![FirstMatch(title)] = [doc EXCEPT !._id = old._id]]
  ELSE store

\* insert_one raises DuplicateKeyError for a dict that carries the _id of a stored
\* document; replace_one raises WriteError for one that carries an _id other than
\* the matched document's.
WriteRaises(count, p) ==
  IF count = 0
  THEN pageObj[p]._id # 0 /\ \E i \in 1..Len(store) : store[i]._id = pageObj[p]._id
  ELSE /\ FirstMatch(pageObj[p].title) # 0
       /\ pageObj[p]._id # 0
       /\ pageObj[p]._id # store[FirstMatch(pageObj[p].title)]._id

\* The _id insert_one gives a dict that carries none.
NewId == Len(store) + 1

\* A store call raised: line 581. The edge SavePersPage -> END follows (line 654).
save_personalized_page_raise(w) ==
  /\ pc[w] \in {"SavePersPage", "SavePersPageWrite"}
  /\ pageObj' = [pageObj EXCEPT ![page[w].ref].customer_uid =
                                   prep.customer_information.customer_uid]
  /\ handle_error_personalization_process(w, "save: exception")
  /\ RecordRaise(w, "save")
  /\ pc' = [pc EXCEPT ![w] = "end"]
  /\ local' = [local EXCEPT ![w] = NoLocal]
  /\ UNCHANGED <<prep, blk, store>>

\* Mutant: the customer uid is not attached to the page.
save_personalized_page_count_unattached(w) ==
  /\ pc[w] = "SavePersPage"
  /\ local' = [local EXCEPT ![w].count = CountDocuments(pageObj[page[w].ref].title)]
  /\ pc' = [pc EXCEPT ![w] = "SavePersPageWrite"]
  /\ UNCHANGED <<prep, queue, has_queue, retry, page, pageObj, blk, store, hist>>

\* Lines 561-566: attach the customer uid, count the documents with the title.
save_personalized_page_count(w) ==
  /\ pc[w] = "SavePersPage"
  /\ pageObj' = [pageObj EXCEPT ![page[w].ref].customer_uid =
                                   prep.customer_information.customer_uid]
  /\ local' = [local EXCEPT ![w].count = CountDocuments(pageObj[page[w].ref].title)]
  /\ pc' = [pc EXCEPT ![w] = "SavePersPageWrite"]
  /\ UNCHANGED <<prep, queue, has_queue, retry, page, blk, store, hist>>

\* Lines 566-579: insert or replace, then pop the head; the workflow ends.
save_personalized_page_node(w) ==
  /\ pc[w] = "SavePersPageWrite"
  /\ LET p == page[w].ref
     IN IF WriteRaises(local[w].count, p)
        THEN /\ handle_error_personalization_process(w, "save: exception")
             /\ RecordRaise(w, "save")
             /\ UNCHANGED <<store, pageObj>>
        ELSE /\ IF local[w].count = 0
                THEN \* insert_one adds the key _id to the dict it is given
                     /\ pageObj' = [pageObj EXCEPT ![p]._id = IF @ = 0 THEN NewId ELSE @]
                     /\ store' = Append(store, [Document(p) EXCEPT
                                                  !._id = IF @ = 0 THEN NewId ELSE @])
                ELSE /\ store' = ReplaceOne(pageObj[p].title, Document(p))
                     /\ UNCHANGED pageObj
             /\ queue' = [queue EXCEPT ![w] = Tail(queue[w])]
             /\ Record(w, "save", TRUE, <<>>)
             /\ UNCHANGED <<has_queue, retry, page>>
  /\ pc' = [pc EXCEPT ![w] = "end"]
  /\ local' = [local EXCEPT ![w] = NoLocal]
  /\ UNCHANGED <<prep, blk>>

\* ---------------------------------------------------------- ParallelProcessing
Launched == 1..Len(prep.pages_to_personalize)

\* Lines 317-335: one personalization_graph.ainvoke per selected page.
parallel_processing_launch ==
  /\ prep.pc = "ParallelProcessing"
  /\ IF prep.error_occurred
     THEN /\ prep' = [prep EXCEPT !.pc = "END"]
          /\ UNCHANGED <<pc, page>>
     ELSE /\ prep' = [prep EXCEPT !.pc = "gather"]
          /\ pc' = [w \in Workflows |->
                      IF w \in Launched THEN "DecideComponentsToPers" ELSE pc[w]]
          /\ page' = [w \in Workflows |->
                      IF w \in Launched THEN PageRef(prep.pages_to_personalize[w])
                      ELSE page[w]]
  /\ UNCHANGED <<queue, has_queue, retry, local, pageObj, blk, store, hist>>

\* Mutant: only the first result is inspected.
AnyErrorFirstOnly == Launched # {} /\ page[1].Error

\* Lines 340-343: some result carries the key "Error".
AnyError == \E w \in Launched : page[w].Error

\* Lines 340-344: the message of the first Error-tagged result, if any.
FirstError ==
  IF \E w \in Launched : page[w].Error
  THEN page[CHOOSE w \in Launched :
              page[w].Error /\ \A v \in 1..(w - 1) : ~page[v].Error].msg
  ELSE prep.error_message

\* Lines 337-351: the gather returned every workflow's final state.
parallel_processing_join ==
  /\ prep.pc = "gather"
  /\ \A w \in Launched : pc[w] = "end"
  /\ prep' = [prep EXCEPT !.pc = "END",
                          !.joined = TRUE,
                          !.error_occurred = AnyError,
                          !.error_message = FirstError]
  /\ UNCHANGED <<pc, queue, has_queue, retry, page, local, pageObj, blk, store, hist>>

\* Line 337: a workflow raised, and gather (return_exceptions unset) re-raises it.
parallel_processing_raise ==
  /\ prep.pc = "gather"
  /\ \E w \in Launched : pc[w] = "raised"
  /\ prep' = [prep EXCEPT !.pc = "raised"]
  /\ UNCHANGED <<pc, queue, has_queue, retry, page, local, pageObj, blk, store, hist>>

\* The titles of the entries of page_list, and a title no entry has.
PageTitles == <<"Home", "About", "Pricing", "Contact">>
\* The url of each entry, and the slugs pages are asked for by.
PageUrls == <<"/home", "/about", "/pricing", "/contact">>
Slugs == {"home", "about", "careers"}
UnknownPage == "Careers"

\* ------------------------------------------------------- the preparation flow
\* The keys of PreparationState a request starts with, and the counters kept for
\* stating the properties. A key the payload does not carry is absent: "" for
\* customer_uid, "absent" for customer_organization (which may also be JSON null).
NoInformation == [absent |-> TRUE]
NoRetrieval == [status |-> 0, docs |-> <<>>]
NoCalls == [pages_read |-> 0, assets_read |-> 0, cdp_read |-> 0,
            research |-> 0, page_selection |-> 0]

RequestState(customer_uid, customer_organization) ==
  [ pc |-> "FetchData",
    customer_uid |-> customer_uid,
    customer_organization |-> customer_organization,
    customer_profile |-> "absent",       \* absent, "no_email", or the email domain it holds
    customer_information |-> NoInformation,
    pages_to_personalize |-> <<>>,
    error_occurred |-> FALSE,
    error_message |-> "",
    is_retry_step |-> FALSE,
    pending |-> 1,                       \* invocations of the current node still to run
    joined |-> FALSE,                    \* the gather of the fan-out has returned
    fetch |-> "none",                    \* how FetchData ended
    calls |-> NoCalls,                   \* reads and completions made for this request
    answers |-> <<>>,                    \* what each research call of this request ended with
    named |-> <<>>,                      \* the titles the last page selection named
    requests |-> 0,                      \* requests received so far
    response |-> 0,                      \* status of the last response (0: none yet)
    body |-> "",                         \* what the last response says
    got |-> NoRetrieval ]                \* the last answer of GET /personalize/...

\* page_list["entries"] as the CMS returns it: page e (if any) has no blocks.
CmsPage(p, e) ==
  [ title |-> PageTitles[p],
    url |-> PageUrls[p],
    blocks |-> IF p = e THEN <<>> ELSE InitialBlocks(2),
    customer_uid |-> "none",
    _id |-> 0 ]
CmsBlocks == [u \in Range(AllUids) |-> OrigBlock(u)]

\* POST /personalize, lines 670-684: a payload with neither key is answered 400.
personalization_request(max, customer_uid, customer_organization) ==
  /\ prep.pc = "idle"
  /\ prep.requests < max
  /\ IF customer_uid = "" /\ customer_organization = "absent"
     THEN prep' = [prep EXCEPT !.requests = @ + 1, !.response = 400,
                               !.body = "Bad Request Error"]
     ELSE prep' = [RequestState(customer_uid, customer_organization) EXCEPT
                     !.requests = prep.requests + 1, !.got = prep.got]
  /\ pc' = [w \in Workflows |-> "idle"]
  /\ queue' = [w \in Workflows |-> <<>>]
  /\ has_queue' = [w \in Workflows |-> FALSE]
  /\ retry' = [w \in Workflows |-> FALSE]
  /\ page' = [w \in Workflows |-> PageRef(w)]
  /\ local' = [w \in Workflows |-> NoLocal]
  /\ hist' = [w \in Workflows |-> NoHist]
  /\ UNCHANGED <<pageObj, blk, store>>

\* Lines 679-683: the response once the preparation graph has returned.
personalization_response ==
  /\ prep.pc = "END"
  /\ prep' = [prep EXCEPT !.pc = "idle",
                          !.response = IF prep.error_occurred THEN 500 ELSE 200,
                          !.body = IF prep.error_occurred THEN prep.error_message
                                   ELSE "Success"]
  /\ UNCHANGED <<pc, queue, has_queue, retry, page, local, pageObj, blk, store, hist>>

\* An exception left the preparation graph (line 678): the server answers with its
\* own 500 page.
personalization_crash ==
  /\ prep.pc = "raised"
  /\ prep' = [prep EXCEPT !.pc = "idle", !.response = 500,
                          !.body = "Unhandled Exception"]
  /\ UNCHANGED <<pc, queue, has_queue, retry, page, local, pageObj, blk, store, hist>>

\* Mutant: a first failure of FetchData is retried like one of the other nodes.
handle_error_preparation_retries_fetch(s, node) ==
  IF s.is_retry_step
  THEN [s EXCEPT !.error_occurred = TRUE]
  ELSE [s EXCEPT !.is_retry_step = TRUE, !.pending = @ + 1]

\* handle_error_preparation_process(state, node): the recursive call of the node is
\* one more pending invocation.
handle_error_preparation_process(s, node) ==
  IF s.is_retry_step \/ node = "FetchData"
  THEN [s EXCEPT !.error_occurred = TRUE]
  ELSE [s EXCEPT !.is_retry_step = TRUE, !.pending = @ + 1]

\* The node returned to the graph once no invocation of it is pending: the edge to
\* the next node is taken.
Edge(s, next) ==
  IF s.pending = 0 THEN [s EXCEPT !.pc = next, !.pending = 1] ELSE s

FetchFailures == {"pages_fail", "assets_fail", "cdp_fail"}
\* The domains analyze_company_node refuses (line 212), and what the CDP read may
\* end with: a failure, a profile without email_domain, or one with a domain.
FreeMailDomains == {"gmail.com", "outlook.com"}
BusinessDomain == "acme.com"
CdpAnswers == {"fail", "no_email", BusinessDomain} \cup FreeMailDomains

\* fetch_data_node, lines 113-187. pages_ok, assets_ok: the CMS reads succeed;
\* cdp: the CDP read fails or what the profile says; e: the page without blocks.
fetch_data_node(pages_ok, assets_ok, cdp, e) ==
  /\ prep.pc = "FetchData"
  /\ LET s0 == [prep EXCEPT !.error_occurred = FALSE, !.is_retry_step = FALSE,
                            !.pending = 0]
         s1 == [s0 EXCEPT !.calls.pages_read = @ + 1]
         s2 == [s1 EXCEPT !.calls.assets_read = @ + 1]
         s3 == [s2 EXCEPT !.calls.cdp_read = @ + 1]
         out ==
           IF ~pages_ok
           THEN handle_error_preparation_process(
                  [s1 EXCEPT !.error_message = "fetch: pages", !.fetch = "pages_fail"],
                  "FetchData")
           ELSE IF ~assets_ok
           THEN handle_error_preparation_process(
                  [s2 EXCEPT !.error_message = "fetch: assets", !.fetch = "assets_fail"],
                  "FetchData")
           ELSE IF prep.customer_uid = ""
           THEN [s2 EXCEPT !.fetch = "ok"]      \* KeyError, swallowed at line 186
           ELSE IF cdp = "fail"
           THEN handle_error_preparation_process(
                  [s3 EXCEPT !.error_message = "fetch: cdp", !.fetch = "cdp_fail"],
                  "FetchData")
           ELSE [s3 EXCEPT !.customer_profile = cdp, !.fetch = "ok"]
     IN /\ prep' = Edge(out, "AnalyzeCompany")
        /\ IF pages_ok
           THEN /\ pageObj' = [p \in PageIds |-> CmsPage(p, e)]
                /\ blk' = [p \in PageIds |-> CmsBlocks]
           ELSE UNCHANGED <<pageObj, blk>>
  /\ UNCHANGED <<pc, queue, has_queue, retry, page, local, store, hist>>

\* Lines 196-220: what analyze_company_node is to analyze.
Route(s) ==
  IF s.customer_profile \notin {"absent", "no_email"} THEN "email"
  ELSE IF s.customer_organization = "absent" THEN "none"
  ELSE IF s.customer_organization = "null" THEN "unbound"
  ELSE "organization"

\* Answers of the company-research agent.
Raised == [industry |-> "raised", company_size |-> -1, country |-> "raised"]
NotFound == [industry |-> "not found", company_size |-> -1, country |-> "not found"]
Found == [industry |-> "Software", company_size |-> 50, country |-> "NL"]
FoundIndustryOnly == [industry |-> "Software", company_size |-> -1, country |-> "not found"]
ResearchAnswers == {NotFound, Found, FoundIndustryOnly}

\* Mutant: the profile stores every field of the answer as it came.
CustomerInformationWithSentinels(r, customer_uid) ==
  [industry |-> r.industry, customer_uid |-> customer_uid,
   company_size |-> r.company_size, country |-> r.country]

\* Lines 246-251: customer_information of an answer that found the industry.
CustomerInformation(r, customer_uid) ==
  [k \in {"industry", "customer_uid"}
        \cup (IF r.company_size # -1 THEN {"company_size"} ELSE {})
        \cup (IF r.country # "not found" THEN {"country"} ELSE {}) |->
     CASE k = "industry" -> r.industry
       [] k = "customer_uid" -> customer_uid
       [] k = "company_size" -> r.company_size
       [] k = "country" -> r.country]

\* An invocation of analyze_company_node that returns, or raises, before the agent
\* is invoked: lines 193-220.
analyze_company_return ==
  /\ prep.pc = "AnalyzeCompany"
  /\ LET s0 == [prep EXCEPT !.pending = @ - 1]
     IN IF prep.error_occurred
        THEN prep' = Edge(s0, "DecidePagesToPers")
        ELSE CASE Route(prep) = "none" ->
                    prep' = Edge([s0 EXCEPT !.error_occurred = TRUE,
                                            !.error_message = "analyze: no organization or email"],
                                 "DecidePagesToPers")
               [] Route(prep) = "unbound" ->   \* is_email_analysis is read unbound
                    prep' = [s0 EXCEPT !.pc = "raised"]
               [] Route(prep) = "email" ->
                    /\ prep.customer_profile \in FreeMailDomains
                    /\ prep' = Edge([s0 EXCEPT !.error_occurred = TRUE,
                                               !.error_message = "analyze: not a business email"],
                                    "DecidePagesToPers")
               [] OTHER -> FALSE
  /\ UNCHANGED <<pc, queue, has_queue, retry, page, local, pageObj, blk, store, hist>>

\* Mutant: the free-mail test is lost, every email domain is analyzed.
ResearchesAnyDomain ==
  /\ prep.pc = "AnalyzeCompany"
  /\ ~prep.error_occurred
  /\ Route(prep) \in {"organization", "email"}

\* The invocation reaches the agent: lines 193-241.
Researches ==
  /\ prep.pc = "AnalyzeCompany"
  /\ ~prep.error_occurred
  /\ \/ Route(prep) = "organization"
     \/ Route(prep) = "email" /\ prep.customer_profile \notin FreeMailDomains

\* Lines 255-263: the agent answered 'not found'; on the organization path
\* analyze_company_node is called once more after the error handling (line 262).
AfterNotFound(s) ==
  LET h == handle_error_preparation_process(
             [s EXCEPT !.error_message = "analyze: industry not found"], "analyzeCompany")
  IN IF Route(s) = "email" THEN h ELSE [h EXCEPT !.pending = @ + 1]

\* The agent, or the code that uses its answer, raised: lines 266-269.
AfterException(s) ==
  handle_error_preparation_process(
    [s EXCEPT !.error_message = "analyze: exception"], "analyzeCompany")

\* An invocation of analyze_company_node in which the agent raised.
analyze_company_raise ==
  /\ Researches
  /\ prep' = Edge(AfterException([prep EXCEPT !.pending = @ - 1,
                                              !.calls.research = @ + 1,
                                              !.answers = Append(@, Raised)]),
                  "DecidePagesToPers")
  /\ UNCHANGED <<pc, queue, has_queue, retry, page, local, pageObj, blk, store, hist>>

\* An invocation of analyze_company_node in which the agent answered r: lines 236-263.
analyze_company_node(r) ==
  /\ Researches
  /\ LET s0 == [prep EXCEPT !.pending = @ - 1, !.calls.research = @ + 1,
                            !.answers = Append(@, r)]
         out ==
           IF r.industry # "not found"
           THEN IF prep.customer_uid = ""
                THEN AfterException(s0)     \* state["customer_uid"]: KeyError, line 246
                ELSE [s0 EXCEPT !.customer_information =
                                   CustomerInformation(r, prep.customer_uid)]
           ELSE AfterNotFound(s0)
     IN prep' = Edge(out, "DecidePagesToPers")
  /\ UNCHANGED <<pc, queue, has_queue, retry, page, local, pageObj, blk, store, hist>>

\* Mutant: an entry without blocks is selected like any other.
RECURSIVE EntriesTitledWithEmpty(_, _)
EntriesTitledWithEmpty(title, p) ==
  IF p > NPages THEN <<>>
  ELSE (IF pageObj[p].title = title THEN <<p>> ELSE <<>>)
       \o EntriesTitledWithEmpty(title, p + 1)

\* Lines 292-302: the entries with a block whose title the answer names, per title
\* in the order of page_list.
RECURSIVE EntriesTitled(_, _)
EntriesTitled(title, p) ==
  IF p > NPages THEN <<>>
  ELSE (IF pageObj[p].title = title /\ pageObj[p].blocks # <<>> THEN <<p>> ELSE <<>>)
       \o EntriesTitled(title, p + 1)

RECURSIVE PagesToPersonalize(_)
PagesToPersonalize(titles) ==
  IF titles = <<>> THEN <<>>
  ELSE EntriesTitled(Head(titles), 1) \o PagesToPersonalize(Tail(titles))

\* An invocation of decide_pages_to_personalize_node that returns at line 275.
decide_pages_to_personalize_return ==
  /\ prep.pc = "DecidePagesToPers"
  /\ prep.error_occurred
  /\ prep' = Edge([prep EXCEPT !.pending = @ - 1], "ParallelProcessing")
  /\ UNCHANGED <<pc, queue, has_queue, retry, page, local, pageObj, blk, store, hist>>

\* An invocation in which the completion raised: lines 308-311.
decide_pages_to_personalize_raise ==
  /\ prep.pc = "DecidePagesToPers"
  /\ ~prep.error_occurred
  /\ prep' = Edge(handle_error_preparation_process(
                    [prep EXCEPT !.pending = @ - 1,
                                 !.calls.page_selection = @ + 1,
                                 !.error_message = "decide pages: exception"],
                    "DecidePagesToPers"),
                  "ParallelProcessing")
  /\ UNCHANGED <<pc, queue, has_queue, retry, page, local, pageObj, blk, store, hist>>

\* An invocation in which the completion named the titles: lines 284-306.
decide_pages_to_personalize_node(titles) ==
  /\ prep.pc = "DecidePagesToPers"
  /\ ~prep.error_occurred
  /\ Len(PagesToPersonalize(titles)) <= NPages
  /\ prep' = Edge([prep EXCEPT !.pending = @ - 1,
                               !.calls.page_selection = @ + 1,
                               !.named = titles,
                               !.pages_to_personalize = PagesToPersonalize(titles)],
                  "ParallelProcessing")
  /\ UNCHANGED <<pc, queue, has_queue, retry, page, local, pageObj, blk, store, hist>>

\* ----------------------------------------------- GET /personalize/<uid>/<slug>
\* The projection {"_id": 0}.
WithoutId(d) == [k \in DOMAIN d \ {"_id"} |-> d[k]]

\* Mutant: the query filters by url only.
RECURSIVE FindAnyCustomer(_, _, _)
FindAnyCustomer(st, customer_uid, url) ==
  IF st = <<>> THEN <<>>
  ELSE (IF Head(st).url = url THEN <<WithoutId(Head(st))>> ELSE <<>>)
       \o FindAnyCustomer(Tail(st), customer_uid, url)

\* collection.find({"customer_uid": customer_uid, "url": url}, {"_id": 0}), line 696.
RECURSIVE Find(_, _, _)
Find(st, customer_uid, url) ==
  IF st = <<>> THEN <<>>
  ELSE (IF Head(st).customer_uid = customer_uid /\ Head(st).url = url
        THEN <<WithoutId(Head(st))>> ELSE <<>>)
       \o Find(Tail(st), customer_uid, url)

\* retrieve_personalized_pages, lines 688-702: the slug is prefixed with "/".
retrieve_personalized_pages(customer_uid, slug) ==
  /\ LET personalized_pages == Find(store, customer_uid, "/" \o slug)
     IN prep' = [prep EXCEPT !.got =
                   IF Len(personalized_pages) > 0
                   THEN [status |-> 200, docs |-> personalized_pages]
                   ELSE [status |-> 404, docs |-> <<>>]]
  /\ UNCHANGED <<pc, queue, has_queue, retry, page, local, pageObj, blk, store, hist>>

\* The store query raised: lines 703-704.
retrieve_personalized_pages_raise ==
  /\ prep' = [prep EXCEPT !.got = [status |-> 500, docs |-> <<>>]]
  /\ UNCHANGED <<pc, queue, has_queue, retry, page, local, pageObj, blk, store, hist>>

\* ------------------------------------------------------------ specifications

\* The fan-out is about to start over the entries `pages` of a page list whose
\* entries have the given titles and urls and nblocks blocks each.
InitTitled(pages, nblocks, titles, urls) ==
  /\ prep = [RequestState(CustomerUid, "absent") EXCEPT
               !.pc = "ParallelProcessing",
               !.pages_to_personalize = pages,
               !.customer_profile = BusinessDomain,
               !.customer_information = CustomerInformation(Found, CustomerUid),
               !.fetch = "ok",
               !.requests = 1]
  /\ pc = [w \in Workflows |-> "idle"]
  /\ queue = [w \in Workflows |-> <<>>]
  /\ has_queue = [w \in Workflows |-> FALSE]
  /\ retry = [w \in Workflows |-> FALSE]
  /\ page = [w \in Workflows |-> PageRef(w)]
  /\ local = [w \in Workflows |-> NoLocal]
  /\ pageObj = [p \in PageIds |->
                  [title |-> titles[p], url |-> urls[p],
                   blocks |-> InitialBlocks(nblocks),
                   customer_uid |-> "none", _id |-> 0]]
  /\ blk = [p \in PageIds |-> [u \in Range(AllUids) |-> OrigBlock(u)]]
  /\ store = <<>>
  /\ hist = [w \in Workflows |-> NoHist]

InitWith(pages, nblocks) == InitTitled(pages, nblocks, PageTitles, PageUrls)

\* Answers of the completion capability.
GenText(v) == [title |-> "gen_title_" \o v, copytext |-> "gen_copy_" \o v]
GenTexts == {GenText("a"), GenText("b")}
StepLists == SeqsUpTo(KnownSteps \cup {UnknownStep}, MaxSteps)
TitleLists == SeqsUpTo(CatalogTitles \cup {UnknownTitle}, MaxListLen)
UidLists == SeqsUpTo(Range(AllUids) \cup {InventedUid}, MaxListLen)

\* The fan-out and the join, common to every specification.
FanOut ==
  \/ parallel_processing_launch
  \/ parallel_processing_join

\* The nodes every page workflow passes through.
Routing(w) ==
  \/ personalization_router_node(w)
  \/ save_personalized_page_raise(w)
  \/ save_personalized_page_count(w)
  \/ save_personalized_page_node(w)

\* SpecPage: one page workflow under every component decision of up to MaxSteps
\* entries and every pattern of step failures; each step's completion either
\* raises or gives one of a few answers (resolving, not resolving, empty).
InitPage == InitWith(<<1>>, 2)

PageImageAnswers ==
  { <<<<"Photo-A">>, <<"u1">>>>, <<<<"Photo-B", "Photo-X">>, <<"u1", "u2">>>>,
    <<<<"Photo-A">>, <<"ux">>>> }
PageOrderAnswers == { <<"u2">>, <<>> }

NextPage ==
  \/ FanOut
  \/ parallel_processing_raise
  \/ \E w \in Workflows :
       \/ Routing(w)
       \/ DecideComponentsRaise(w)
       \/ \E l \in StepLists : DecideComponents(w, l)
       \/ personalize_texts_begin(w)
       \/ personalize_texts_raise(w)
       \/ personalize_texts_node(w, [i \in 1..Len(local[w].block_list) |-> GenText("a")])
       \/ personalize_images_raise(w)
       \/ \E a \in PageImageAnswers : personalize_images_node(w, a[1], a[2])
       \/ personalize_element_order_raise(w)
       \/ \E block_order \in PageOrderAnswers : personalize_element_order_node(w, block_order)

SpecPage == InitPage /\ [][NextPage]_vars

\* SpecPageFair: SpecPage in which a step that can be taken is eventually taken:
\* the event loop runs every node that is ready, and every completion it awaits
\* returns or raises.
SpecPageFair == SpecPage /\ WF_vars(NextPage)

\* SpecSteps: one page workflow whose queue is [text, image, order, save], under
\* every pattern of step failures; each step's completion either raises or gives
\* one of the answers of SpecPage.
AllSteps == <<"text", "image", "order">>

NextSteps ==
  \/ FanOut
  \/ \E w \in Workflows :
       \/ Routing(w)
       \/ DecideComponents(w, AllSteps)
       \/ personalize_texts_begin(w)
       \/ personalize_texts_raise(w)
       \/ personalize_texts_node(w, [i \in 1..Len(local[w].block_list) |-> GenText("a")])
       \/ personalize_images_raise(w)
       \/ \E a \in PageImageAnswers : personalize_images_node(w, a[1], a[2])
       \/ personalize_element_order_raise(w)
       \/ \E block_order \in PageOrderAnswers : personalize_element_order_node(w, block_order)

SpecSteps == InitPage /\ [][NextSteps]_vars

\* ------------------------------------------- the single-page variant, personalize_page.py
\* The variant personalizes one page in one graph run, without fan-out: workflow 1
\* stands for the run, page 1 for state["personalized_page"].
Single == 1

\* determine_next_step, personalize_page.py lines 226-240.
determine_next_step ==
  /\ pc[Single] = "Router"
  /\ pc' = [pc EXCEPT ![Single] = IF queue[Single] = <<>> THEN "end" ELSE Goto(Head(queue[Single]))]
  /\ hist' = [hist EXCEPT ![Single].routed =
                IF queue[Single] = <<>> THEN @ ELSE Append(@, Head(queue[Single]))]
  /\ UNCHANGED <<prep, queue, has_queue, retry, page, local, pageObj, blk, store>>

\* The except branch of the variant's nodes, lines 484-493: a failure with
\* is_retry_step set replaces the page by an Error record and empties the queue, a
\* first failure sets is_retry_step.
retry_or_abort(m) ==
  IF retry[Single]
  THEN /\ page' = [page EXCEPT ![Single] = ErrorRecord(m)]
       /\ queue' = [queue EXCEPT ![Single] = <<>>]
       /\ UNCHANGED <<retry, has_queue>>
  ELSE /\ retry' = [retry EXCEPT ![Single] = TRUE]
       /\ UNCHANGED <<page, queue, has_queue>>

\* Lines 439-441 on a page without blocks: stripped_block_list[0] raises IndexError
\* outside the try, the graph run ends with the exception.
personalize_element_order_index_error ==
  /\ pc[Single] = "PersElmtOrder"
  /\ pageObj[page[Single].ref].blocks = <<>>
  /\ pc' = [pc EXCEPT ![Single] = "raised"]
  /\ RecordRaise(Single, "order")
  /\ UNCHANGED <<prep, queue, has_queue, retry, page, local, pageObj, blk, store>>

\* Lines 439-441 and 484-493: the first block is deleted from the page's own list
\* (stripped_block_list is that list, not a copy), then the completion raises.
personalize_element_order_single_raise ==
  /\ pc[Single] = "PersElmtOrder"
  /\ pageObj[page[Single].ref].blocks # <<>>
  /\ pageObj' = [pageObj EXCEPT ![page[Single].ref].blocks = Tail(@)]
  /\ retry_or_abort("order: exception")
  /\ RecordRaise(Single, "order")
  /\ pc' = [pc EXCEPT ![Single] = "Router"]
  /\ UNCHANGED <<prep, local, blk, store>>

\* Lines 439-482: the first block is deleted from the page's list, the completion
\* answers block_order, and the page gets the deleted block followed by the
\* blocks the answer names.
personalize_element_order_single(block_order) ==
  /\ pc[Single] = "PersElmtOrder"
  /\ pageObj[page[Single].ref].blocks # <<>>
  /\ pageObj' = [pageObj EXCEPT ![page[Single].ref].blocks = UpdatedBlockList(@, block_order)]
  /\ PopAndClear(Single)
  /\ Record(Single, "order", TRUE, block_order)
  /\ pc' = [pc EXCEPT ![Single] = "Router"]
  /\ UNCHANGED <<prep, local, blk, store>>

\* save_personalized_page_node of the variant, lines 504-521: count, then insert or
\* replace, then pop; the run ends.
save_personalized_page_single ==
  /\ pc[Single] = "SavePersPage"
  /\ LET p == page[Single].ref
     IN IF CountDocuments(pageObj[p].title) = 0
        THEN /\ pageObj' = [pageObj EXCEPT ![p]._id = NewId]
             /\ store' = Append(store, [Document(p) EXCEPT !._id = NewId])
        ELSE /\ store' = ReplaceOne(pageObj[p].title, Document(p))
             /\ UNCHANGED pageObj
  /\ queue' = [queue EXCEPT ![Single] = Tail(@)]
  /\ Record(Single, "save", TRUE, <<>>)
  /\ pc' = [pc EXCEPT ![Single] = "end"]
  /\ UNCHANGED <<prep, has_queue, retry, page, local, blk>>

\* The store call of the variant's Save raised: lines 523-531.
save_personalized_page_single_raise ==
  /\ pc[Single] = "SavePersPage"
  /\ IF retry[Single]
     THEN queue' = [queue EXCEPT ![Single] = <<>>] /\ UNCHANGED retry
     ELSE retry' = [retry EXCEPT ![Single] = TRUE] /\ UNCHANGED queue
  /\ RecordRaise(Single, "save")
  /\ pc' = [pc EXCEPT ![Single] = "end"]
  /\ UNCHANGED <<prep, has_queue, page, local, pageObj, blk, store>>

\* SpecSingle: the variant's run from the moment its text and image steps have
\* been popped: the queue is [order, save], the page has one to three blocks, the
\* store is empty or holds an earlier document of the page's title; every
\* block_order of up to MaxListLen uids, and every failure pattern.
InitSingle ==
  \E n \in 1..Len(AllUids) : \E st \in {<<>>, <<LegacyDocument(PageTitles[1])>>} :
    /\ prep = [RequestState(CustomerUid, "absent") EXCEPT !.pc = "idle", !.pending = 0]
    /\ pc = [w \in Workflows |-> IF w = Single THEN "Router" ELSE "idle"]
    /\ queue = [w \in Workflows |-> IF w = Single THEN <<"order", "save">> ELSE <<>>]
    /\ has_queue = [w \in Workflows |-> w = Single]
    /\ retry = [w \in Workflows |-> FALSE]
    /\ page = [w \in Workflows |-> PageRef(w)]
    /\ local = [w \in Workflows |-> NoLocal]
    /\ pageObj = [p \in PageIds |->
                    [title |-> PageTitles[p], url |-> PageUrls[p],
                     blocks |-> InitialBlocks(n),
                     customer_uid |-> "none", _id |-> 0]]
    /\ blk = [p \in PageIds |-> [u \in Range(AllUids) |-> OrigBlock(u)]]
    /\ store = st
    /\ hist = [w \in Workflows |->
                 IF w = Single THEN [NoHist EXCEPT !.initQ = <<"order", "save">>] ELSE NoHist]

NextSingle ==
  \/ determine_next_step
  \/ personalize_element_order_index_error
  \/ personalize_element_order_single_raise
  \/ \E block_order \in UidLists : personalize_element_order_single(block_order)
  \/ save_personalized_page_single
  \/ save_personalized_page_single_raise

SpecSingle == InitSingle /\ [][NextSingle]_vars

\* SpecSaves: two page workflows running side by side whose pages have the same
\* title: the same entry of the page list selected twice, or two page dicts that
\* carry the title Home; the queues are [text, save].

InitSaves ==
  \E pages \in { <<1, 1>>, <<1, 2>> } :
    InitTitled(pages, 2, [p \in PageIds |-> "Home"], [p \in PageIds |-> "/home"])

NextSaves ==
  \/ FanOut
  \/ \E w \in Workflows :
       \/ Routing(w)
       \/ DecideComponents(w, <<"text">>)
       \/ personalize_texts_begin(w)
       \/ personalize_texts_raise(w)
       \/ personalize_texts_node(w, [i \in 1..Len(local[w].block_list) |-> GenText("a")])

SpecSaves == InitSaves /\ [][NextSaves]_vars

\* SpecOrder: one page workflow whose queue is [order, save], on a page of one to
\* three blocks, under every block_order of up to MaxListLen uids.
InitOrder == \E n \in 1..Len(AllUids) : InitWith(<<1>>, n)

NextOrder ==
  \/ FanOut
  \/ \E w \in Workflows :
       \/ Routing(w)
       \/ DecideComponents(w, <<"order">>)
       \/ personalize_element_order_raise(w)
       \/ \E block_order \in UidLists : personalize_element_order_node(w, block_order)

SpecOrder == InitOrder /\ [][NextOrder]_vars

\* SpecImages: one page workflow whose queue is [image, save], on a page of one to
\* three blocks, under every pair of titles and block_uids of up to MaxListLen entries.
NextImages ==
  \/ FanOut
  \/ \E w \in Workflows :
       \/ Routing(w)
       \/ DecideComponents(w, <<"image">>)
       \/ personalize_images_raise(w)
       \/ \E titles \in TitleLists : \E block_uids \in UidLists :
            personalize_images_node(w, titles, block_uids)

SpecImages == InitOrder /\ [][NextImages]_vars

\* SpecTexts: one page workflow whose queue is [text, save], on a page of one to
\* three blocks; the completions of the blocks start and finish one by one, in every
\* order and with every choice of generated texts.
NextTexts ==
  \/ FanOut
  \/ \E w \in Workflows :
       \/ Routing(w)
       \/ DecideComponents(w, <<"text">>)
       \/ personalize_texts_begin(w)
       \/ personalize_texts_raise(w)
       \/ \E i \in 1..Len(AllUids) :
            \/ personalize_text_prompt(w, i)
            \/ \E text \in GenTexts : personalize_text(w, i, text)
       \/ personalize_texts_gathered(w)

SpecTexts == InitOrder /\ [][NextTexts]_vars

\* Spec: the fan-out over up to NPages distinct pages, the workflows interleaved
\* step by step; each workflow's queue is [text, save] or holds an unknown entry.
FanLists == { <<"text">>, <<UnknownStep>> }

Init == \E n \in 0..NPages : InitWith([i \in 1..n |-> i], 2)

Next ==
  \/ FanOut
  \/ parallel_processing_raise
  \/ \E w \in Workflows :
       \/ Routing(w)
       \/ \E l \in FanLists : DecideComponents(w, l)
       \/ personalize_texts_begin(w)
       \/ personalize_texts_raise(w)
       \/ personalize_texts_node(w, [i \in 1..Len(local[w].block_list) |-> GenText("a")])

Spec == Init /\ [][Next]_vars

\* The server between two requests, the store holding the documents st.
InitServer(st) ==
  /\ prep = [RequestState("", "absent") EXCEPT !.pc = "idle", !.pending = 0]
  /\ pc = [w \in Workflows |-> "idle"]
  /\ queue = [w \in Workflows |-> <<>>]
  /\ has_queue = [w \in Workflows |-> FALSE]
  /\ retry = [w \in Workflows |-> FALSE]
  /\ page = [w \in Workflows |-> PageRef(w)]
  /\ local = [w \in Workflows |-> NoLocal]
  /\ pageObj = [p \in PageIds |-> CmsPage(p, 0)]
  /\ blk = [p \in PageIds |-> CmsBlocks]
  /\ store = st
  /\ hist = [w \in Workflows |-> NoHist]

\* A page workflow whose queue is [text, save] and none of whose steps raises.
TextAndSave(w) ==
  \/ DecideComponents(w, <<"text">>)
  \/ personalization_router_node(w)
  \/ personalize_texts_begin(w)
  \/ personalize_texts_node(w, [i \in 1..Len(local[w].block_list) |-> GenText("a")])
  \/ save_personalized_page_count(w)
  \/ save_personalized_page_node(w)

\* SpecPrep: one request through the preparation flow, under every payload, every
\* outcome of the three reads, every answer of the research agent and a few page
\* selections (none, one page, a page twice, a page without blocks, an unknown
\* title); the page workflows of the fan-out personalize texts and save.
Payloads == {"", CustomerUid} \X {"absent", "null", "Acme"}
EmptyPages == {0, 2}
PageSelections ==
  { <<>>, <<"Home">>, <<"Home", "Home">>, <<"Home", "About">>, <<"About", UnknownPage>> }

InitPrep == InitServer(<<>>)

NextPrep ==
  \/ \E pl \in Payloads : personalization_request(1, pl[1], pl[2])
  \/ personalization_response
  \/ personalization_crash
  \/ \E pages_ok \in BOOLEAN, assets_ok \in BOOLEAN, cdp \in CdpAnswers, e \in EmptyPages :
       fetch_data_node(pages_ok, assets_ok, cdp, e)
  \/ analyze_company_return
  \/ analyze_company_raise
  \/ \E r \in ResearchAnswers : analyze_company_node(r)
  \/ decide_pages_to_personalize_return
  \/ decide_pages_to_personalize_raise
  \/ \E titles \in PageSelections : decide_pages_to_personalize_node(titles)
  \/ FanOut
  \/ \E w \in Workflows : TextAndSave(w)

SpecPrep == InitPrep /\ [][NextPrep]_vars

\* SpecRequests: up to MaxRequests requests one after the other, for either
\* customer, whose preparation succeeds at once, and retrievals of saved pages at
\* any moment; the store starts empty or with a document of the title Home saved
\* earlier.
MaxRequests == 2
Customers == {CustomerUid, OtherCustomerUid}
RequestSelections == { <<"Home">>, <<"Home", "About">>, <<"Home", "Home">> }

InitRequests == \E st \in {<<>>, <<LegacyDocument("Home")>>} : InitServer(st)

NextRequests ==
  \/ \E c \in Customers : personalization_request(MaxRequests, c, "absent")
  \/ personalization_response
  \/ \E c \in Customers : \E slug \in Slugs : retrieve_personalized_pages(c, slug)
  \/ retrieve_personalized_pages_raise
  \/ fetch_data_node(TRUE, TRUE, BusinessDomain, 0)
  \/ analyze_company_node(Found)
  \/ \E titles \in RequestSelections : decide_pages_to_personalize_node(titles)
  \/ FanOut
  \/ \E w \in Workflows : TextAndSave(w)

SpecRequests == InitRequests /\ [][NextRequests]_vars

\* ================================================================== properties
Att(w) == hist[w].attempts
LastAttempt(w) == Att(w)[Len(Att(w))]
Retried == {"text", "image", "order"}
FailedFirst(a) == ~a.ok /\ ~a.wasRetry
FailedAgain(a) == ~a.ok /\ a.wasRetry
MessagesOf(step) ==
  CASE step = "text" -> {"text: exception"}
    [] step = "image" -> {"image: exception", "image: do not exist"}
    [] step = "order" -> {"order: exception", "order: no block uids"}
    [] OTHER -> {}
NodesOf(step) ==
  CASE step = "text" -> {"PersTexts", "PersTextsGather"}
    [] step = "image" -> {"PersImages"}
    [] step = "order" -> {"PersElmtOrder"}
    [] OTHER -> {}
\* An action of workflow w that made an attempt.
Attempted(w) == Len(hist'[w].attempts) = Len(hist[w].attempts) + 1
NewAttempt(w) == hist'[w].attempts[Len(hist'[w].attempts)]

\* C1: whenever a text, image or order attempt fails while is_retry_step is true,
\* the queue is emptied, the page result becomes an Error record carrying that
\* step's message, and the Router ends the workflow: the failed attempt is the
\* last one, and nothing is dispatched after it.
C1_SecondFailureIsFatal ==
  \A w \in Workflows : \A i \in 1..Len(Att(w)) :
    (Att(w)[i].step \in Retried /\ FailedAgain(Att(w)[i])) =>
       /\ i = Len(Att(w))
       /\ Len(hist[w].routed) = i - 1
       /\ queue[w] = <<>>
       /\ page[w].Error
       /\ page[w].msg \in MessagesOf(Att(w)[i].step)
       /\ pc[w] \in {"Router", "end"}

C1_Witness ==
  \E w \in Workflows :
    /\ pc[w] = "end"
    /\ Len(Att(w)) >= 3
    /\ LastAttempt(w).step = "order"
    /\ FailedAgain(LastAttempt(w))
    /\ Att(w)[Len(Att(w)) - 1].step = "order"

\* C2: a first failure of the text, image or order step at the queue head sets
\* is_retry_step, leaves the queue unchanged and does not Error-tag the page, and
\* the next step the Router dispatches, and the next attempt made, is that step.
C2_FirstFailureRetries ==
  /\ [][\A w \in Workflows :
          (Attempted(w) /\ NewAttempt(w).step \in Retried /\ FailedFirst(NewAttempt(w))) =>
             /\ retry'[w]
             /\ has_queue'[w] /\ queue'[w] = queue[w]
             /\ Head(queue'[w]) = NewAttempt(w).step
             /\ ~page'[w].Error
             /\ pc'[w] = "Router"]_vars
  /\ [](\A w \in Workflows : \A i \in 1..Len(Att(w)) :
          (Att(w)[i].step \in Retried /\ FailedFirst(Att(w)[i])) =>
             /\ Len(hist[w].routed) >= i => hist[w].routed[i] = Att(w)[i].step
             /\ (Len(hist[w].routed) >= i /\ i = Len(Att(w))) =>
                   pc[w] \in NodesOf(Att(w)[i].step)
             /\ i < Len(Att(w)) =>
                   Att(w)[i + 1].step = Att(w)[i].step /\ Att(w)[i + 1].wasRetry)

C2_Witness ==
  \E w \in Workflows :
    /\ pc[w] = "PersImages"
    /\ Len(Att(w)) >= 2
    /\ LastAttempt(w).step = "image"
    /\ FailedFirst(LastAttempt(w))
    /\ retry[w]
    /\ Len(hist[w].routed) = Len(Att(w))

\* C3 (as claimed): Save is retried like the other steps: a workflow never ends on
\* a first Save failure, and one that ends on a failed Save carries an Error tag.
C3_SaveRetriedOnce ==
  \A w \in Workflows :
    (pc[w] = "end" /\ Len(Att(w)) >= 1 /\ LastAttempt(w).step = "save" /\ ~LastAttempt(w).ok) =>
       /\ LastAttempt(w).wasRetry
       /\ Att(w)[Len(Att(w)) - 1].step = "save"
       /\ page[w].Error

\* C4: once the queue exists its length never grows: a successful step removes
\* exactly the head, a first failure leaves the queue as it is, a fatal failure
\* empties it, nothing else touches it, and a run has at most one fatal failure.
C4_QueueMonotone ==
  /\ [][\A w \in Workflows : has_queue[w] =>
          /\ has_queue'[w]
          /\ Len(queue'[w]) <= Len(queue[w])
          /\ IF ~Attempted(w) THEN queue'[w] = queue[w]
             ELSE IF NewAttempt(w).ok
               THEN queue[w] # <<>> /\ queue'[w] = Tail(queue[w])
                    /\ Len(queue'[w]) = Len(queue[w]) - 1
             ELSE IF NewAttempt(w).wasRetry THEN queue'[w] = <<>>
             ELSE queue'[w] = queue[w]]_vars
  /\ [](\A w \in Workflows :
          Cardinality({i \in 1..Len(Att(w)) : FailedAgain(Att(w)[i])}) <= 1)

C4_Witness ==
  \E w \in Workflows :
    /\ pc[w] = "end"
    /\ Len(hist[w].initQ) = 3
    /\ queue[w] = <<>>
    /\ \E i \in 1..Len(Att(w)) : FailedFirst(Att(w)[i])
    /\ LastAttempt(w).step = "save" /\ LastAttempt(w).ok

FatallyFailed(w) == \E i \in 1..Len(Att(w)) : FailedAgain(Att(w)[i])
\* The steps workflow w completed, in order.
RECURSIVE Completed(_)
Completed(atts) ==
  IF atts = <<>> THEN <<>>
  ELSE (IF Head(atts).ok /\ Head(atts).step # "decide" THEN <<Head(atts).step>> ELSE <<>>)
       \o Completed(Tail(atts))

\* C5 (as claimed): when the fan-out has joined and exactly one workflow failed
\* fatally, every other workflow is at its end state with an empty queue, no
\* Error tag, and every step of its own queue completed.
C5_SiblingsComplete ==
  (prep.joined /\ Cardinality({v \in Launched : FatallyFailed(v)}) = 1) =>
     \A w \in Launched : ~FatallyFailed(w) =>
        /\ pc[w] = "end"
        /\ queue[w] = <<>>
        /\ ~page[w].Error
        /\ Completed(Att(w)) = hist[w].initQ

\* Isolation as the code has it (under Spec, whose component decisions do not name
\* save themselves): a workflow none of whose own attempts failed has completed
\* its whole queue at the join, whatever happened to the others.
SiblingsUntouched ==
  prep.joined =>
     \A w \in Launched : (\A i \in 1..Len(Att(w)) : Att(w)[i].ok) =>
        /\ pc[w] = "end"
        /\ queue[w] = <<>>
        /\ ~page[w].Error
        /\ Completed(Att(w)) = hist[w].initQ

\* C6: after the join, error_occurred is true exactly if some page result carries
\* an Error tag, and every launched workflow is at its end state.
C6_JoinReportsErrors ==
  prep.joined =>
     /\ prep.pc = "END"
     /\ prep.error_occurred <=> (\E w \in Launched : page[w].Error)
     /\ \A w \in Launched : pc[w] = "end"

C6_Witness ==
  /\ prep.joined
  /\ prep.error_occurred
  /\ ~page[1].Error
  /\ \E w \in Launched : page[w].Error

\* C7 (as claimed): no exception leaves a page workflow or the fan-out.
C7_NoExceptionEscapes ==
  /\ prep.pc # "raised"
  /\ \A w \in Workflows : pc[w] # "raised"

\* What a step that succeeds with answer r makes of the page f.
SuccessOf(step, f, r) ==
  CASE step = "text" ->
         [blocks |-> f.blocks,
          content |-> WriteTexts(f.content, f.blocks, r, Len(f.blocks))]
    [] step = "image" ->
         LET bd == BlockDetails(r[2], f.blocks)
         IN [blocks |-> f.blocks,
             content |-> AssignImages(f.content, bd, ImageDetails(r[1]), Len(bd))]
    [] step = "order" ->
         [blocks |-> UpdatedBlockList(f.blocks, r), content |-> f.content]

\* The last attempt of w has just been made: the Router has not run since.
JustAttempted(w) ==
  /\ Len(Att(w)) >= 2
  /\ pc[w] = "Router"
  /\ Len(hist[w].routed) = Len(Att(w)) - 1

\* C8 (as claimed): a step that fails once and then succeeds with answer R leaves
\* the page, the queue and the retry flag as the same step succeeding at once
\* with R would have left them.
C8_RetryOnceLaw ==
  \A w \in Workflows :
    (JustAttempted(w) /\ LastAttempt(w).step \in Retried
       /\ LastAttempt(w).ok /\ LastAttempt(w).wasRetry) =>
      LET want == SuccessOf(LastAttempt(w).step, hist[w].first, hist[w].resp)
      IN /\ pageObj[page[w].ref].blocks = want.blocks
         /\ blk[page[w].ref] = want.content
         /\ queue[w] = Tail(hist[w].first.queue)
         /\ ~retry[w]

Count(seq, x) == Cardinality({i \in 1..Len(seq) : seq[i] = x})
IsPermutation(a, b) ==
  /\ Len(a) = Len(b)
  /\ \A x \in Range(a) \cup Range(b) : Count(a, x) = Count(b, x)

\* C9 (as claimed): after a successful ReorderBlocks the block list is a
\* permutation of the list before the step, with the same first block.
C9_ReorderIsPermutation ==
  \A w \in Workflows :
    (JustAttempted(w) /\ LastAttempt(w).step = "order" /\ LastAttempt(w).ok) =>
       /\ IsPermutation(pageObj[page[w].ref].blocks, hist[w].pre.blocks)
       /\ Head(pageObj[page[w].ref].blocks) = Head(hist[w].pre.blocks)

\* C10: after a successful ReorderBlocks with answer R on the block list B, the
\* list is B's first block followed by the uids of R that occur in the rest of B,
\* in R's order, one entry per such position of R; for B = [u1, u2, u3] and
\* R = [u3, u2] it is [u1, u3, u2].
C10_ReorderFollowsAnswer ==
  \A w \in Workflows :
    (JustAttempted(w) /\ LastAttempt(w).step = "order" /\ LastAttempt(w).ok) =>
      LET B == hist[w].pre.blocks
          R == hist[w].resp
          out == pageObj[page[w].ref].blocks
          hits == {i \in 1..Len(R) : \E j \in 2..Len(B) : B[j] = R[i]}
      IN /\ Len(out) = 1 + Cardinality(hits)
         /\ out[1] = B[1]
         /\ \A i \in hits : out[1 + Cardinality({j \in hits : j <= i})] = R[i]
         /\ (B = <<"u1", "u2", "u3">> /\ R = <<"u3", "u2">>) => out = <<"u1", "u3", "u2">>

C10_Witness ==
  \E w \in Workflows :
    /\ JustAttempted(w) /\ LastAttempt(w).step = "order" /\ LastAttempt(w).ok
    /\ hist[w].pre.blocks = <<"u1", "u2", "u3">>
    /\ hist[w].resp = <<"u3", "u2">>
    /\ pageObj[page[w].ref].blocks = <<"u1", "u3", "u2">>

\* The page workflow w was launched on.
PageOf(w) == prep.pages_to_personalize[w]

\* C11 (as claimed): on a page of one block every answer to ReorderBlocks completes
\* the step: the head of the queue is popped, is_retry_step is false, the page
\* carries no Error tag, and the block list is what it was.
C11_OneBlockNoOp ==
  \A w \in Workflows :
    (JustAttempted(w) /\ LastAttempt(w).step = "order" /\ ~hist[w].raised
       /\ Len(hist[w].pre.blocks) = 1) =>
       /\ LastAttempt(w).ok
       /\ queue[w] = Tail(hist[w].pre.queue)
       /\ ~retry[w]
       /\ ~page[w].Error
       /\ pageObj[PageOf(w)].blocks = hist[w].pre.blocks

\* C12: an attempt of ReorderBlocks, successful or failed, first or second, leaves
\* the title, copy text and image of every block as they were; the blocks of the
\* list after the attempt are blocks of the list before it, and a failed attempt
\* leaves the list itself as it was.
C12_ReorderKeepsContent ==
  \A w \in Workflows :
    (JustAttempted(w) /\ LastAttempt(w).step = "order") =>
      LET p == PageOf(w)
      IN /\ Range(pageObj[p].blocks) \subseteq Range(hist[w].pre.blocks)
         /\ \A u \in Range(hist[w].pre.blocks) : blk[p][u] = hist[w].pre.content[u]
         /\ DOMAIN blk[p] = DOMAIN hist[w].pre.content
         /\ ~LastAttempt(w).ok => pageObj[p].blocks = hist[w].pre.blocks

C12_Witness ==
  \E w \in Workflows :
    /\ JustAttempted(w) /\ LastAttempt(w).step = "order" /\ LastAttempt(w).ok
    /\ hist[w].pre.blocks = <<"u1", "u2", "u3">>
    /\ pageObj[PageOf(w)].blocks = <<"u1", "u3", "u2">>
    /\ blk[PageOf(w)]["u3"] = OrigBlock("u3")

\* C13 (as claimed): a PersonalizeImages attempt whose answer names a title that
\* is no asset's, or a uid that is no block's of the page, is a failed attempt.
C13_UnresolvedFails ==
  \A w \in Workflows :
    (JustAttempted(w) /\ LastAttempt(w).step = "image" /\ LastAttempt(w).ok) =>
       /\ Range(hist[w].resp[1]) \subseteq CatalogTitles
       /\ Range(hist[w].resp[2]) \subseteq Range(hist[w].pre.blocks)

\* C14 (as claimed): a block whose image a PersonalizeImages attempt changed has
\* the asset whose title stands in titles where the block's uid stands in
\* block_uids.
C14_PositionalPairing ==
  \A w \in Workflows :
    (JustAttempted(w) /\ LastAttempt(w).step = "image" /\ ~hist[w].raised) =>
      LET titles == hist[w].resp[1]
          block_uids == hist[w].resp[2]
      IN \A u \in DOMAIN blk[PageOf(w)] :
           blk[PageOf(w)][u].image # hist[w].pre.content[u].image =>
              \E i \in 1..Len(block_uids) :
                 /\ block_uids[i] = u
                 /\ i <= Len(titles)
                 /\ titles[i] = blk[PageOf(w)][u].image.title

\* C15 (as claimed): the attempt answered titles = [Photo-A, Photo-X] and
\* block_uids = [u1, u2], Photo-X being no asset's title, fails and leaves the
\* image of every block, u1's included, as it was.
C15_FailedAttemptPlacesNothing ==
  \A w \in Workflows :
    (JustAttempted(w) /\ LastAttempt(w).step = "image"
       /\ hist[w].resp = <<<<"Photo-A", UnknownTitle>>, <<"u1", "u2">>>>
       /\ {"u1", "u2"} \subseteq Range(hist[w].pre.blocks)) =>
       /\ ~LastAttempt(w).ok
       /\ \A u \in DOMAIN blk[PageOf(w)] :
            blk[PageOf(w)][u].image = hist[w].pre.content[u].image

\* The blocks whose image the last attempt of w changed.
Placed(w) ==
  {u \in DOMAIN blk[PageOf(w)] : blk[PageOf(w)][u].image # hist[w].pre.content[u].image}

\* C16: every image a block of the page carries is the one it started with or an
\* asset of the catalog, PersonalizeImages gives images to blocks of the page
\* only, an attempt whose titles or whose uids all fail to resolve is a failed
\* attempt that changes no image, and a successful attempt resolved at least one
\* block and gave every block it resolved an asset of the answer.
C16_OnlyCatalogNeverEmpty ==
  \A w \in Workflows :
    /\ \A p \in PageIds : \A u \in DOMAIN blk[p] :
         blk[p][u].image = NoImage \/ \E i \in 1..Len(Catalog) : blk[p][u].image = Catalog[i]
    /\ (JustAttempted(w) /\ LastAttempt(w).step = "image" /\ ~hist[w].raised) =>
         LET id == ImageDetails(hist[w].resp[1])
             bd == BlockDetails(hist[w].resp[2], hist[w].pre.blocks)
         IN /\ DOMAIN blk[PageOf(w)] = DOMAIN hist[w].pre.content
            /\ Placed(w) \subseteq Range(hist[w].pre.blocks) \cap Range(hist[w].resp[2])
            /\ (id = <<>> \/ bd = <<>>) => ~LastAttempt(w).ok /\ Placed(w) = {}
            /\ LastAttempt(w).ok =>
                 /\ bd # <<>> /\ Len(id) >= Len(bd)
                 /\ \A u \in Range(bd) :
                      \E k \in 1..Len(bd) : bd[k] = u /\ blk[PageOf(w)][u].image = id[k]

C16_Witness ==
  \E w \in Workflows :
    /\ JustAttempted(w) /\ LastAttempt(w).step = "image"
    /\ ~LastAttempt(w).ok /\ ~LastAttempt(w).wasRetry
    /\ hist[w].resp = <<<<UnknownTitle>>, <<"u1">>>>
    /\ retry[w] /\ Head(queue[w]) = "image"
    /\ Placed(w) = {}

\* C17 (as claimed): every page workflow works on a copy of its own: the entries
\* of page_list stay as the CMS returned them (no generated text, no customer_uid,
\* no _id, the block list as fetched), and no two workflows of a fan-out hold the
\* same page.
C17_OwnDeepCopy ==
  /\ \A p \in PageIds :
       /\ blk[p] = CmsBlocks
       /\ pageObj[p].customer_uid = "none"
       /\ pageObj[p]._id = 0
       /\ pageObj[p].blocks \in {<<>>, InitialBlocks(2)}
  /\ prep.pc \in {"gather", "END"} =>
       \A v \in Launched : \A w \in Launched :
          (v # w /\ ~page[v].Error /\ ~page[w].Error) => page[v].ref # page[w].ref

\* The titles of the documents of a store.
TitlesOf(st) == {st[i].title : i \in 1..Len(st)}
\* The store write of workflow w is sequential: no other write came between its
\* count and now.
SequentialWrite(w) ==
  /\ pc[w] = "SavePersPageWrite"
  /\ local[w].count = CountDocuments(pageObj[page[w].ref].title)

\* C18: a Save none of whose store calls raises, made with no other write between
\* its count and its write, leaves exactly one document with the page's title: the
\* page as it is then, with its keys and no other (appended if the title had no
\* document, else in the place and with the _id of the one it had); the documents
\* of other titles are left alone. No step removes a title from the store, and the
\* store never holds two documents of one title.
C18_SaveIsUpsertByTitle ==
  /\ [][\A w \in Workflows :
          (SequentialWrite(w) /\ save_personalized_page_node(w) /\ NewAttempt(w).ok) =>
            LET p == page[w].ref
                T == pageObj[p].title
                i == FirstMatch(T)
                at == IF i = 0 THEN Len(store) + 1 ELSE i
            IN /\ Len(store') = IF i = 0 THEN Len(store) + 1 ELSE Len(store)
               /\ \A j \in 1..Len(store) : j # at => store'[j] = store[j]
               /\ DOMAIN store'[at] = DOMAIN Document(p)
               /\ \A k \in DOMAIN Document(p) \ {"_id"} : store'[at][k] = Document(p)[k]
               /\ store'[at]._id = IF i = 0 THEN NewId ELSE store[i]._id
               /\ Cardinality({j \in 1..Len(store') : store'[j].title = T}) = 1]_vars
  /\ [][TitlesOf(store) \subseteq TitlesOf(store')]_vars
  /\ [](\A T \in TitlesOf(store) : CountDocuments(T) = 1)

C18_Witness ==
  /\ Len(store) = 2
  /\ store[1].title = "Home" /\ store[1]._id = 1
  /\ "seo" \notin DOMAIN store[1]
  /\ store[1].customer_uid = CustomerUid
  /\ store[2].title = "About"
  /\ prep.requests = 2 /\ prep.response = 200

\* C19: once a read of FetchData has failed, the request is marked failed, each
\* read was made at most once and none after the failed one, the retry flag is
\* unset, no research call and no page-selection completion is made, and no page
\* workflow is started; the CDP read fails only for a request with a customer_uid.
C19_FetchFailureStopsRequest ==
  prep.fetch \in FetchFailures =>
     /\ prep.error_occurred
     /\ ~prep.is_retry_step
     /\ prep.error_message =
          CASE prep.fetch = "pages_fail" -> "fetch: pages"
            [] prep.fetch = "assets_fail" -> "fetch: assets"
            [] prep.fetch = "cdp_fail" -> "fetch: cdp"
     /\ prep.calls.pages_read = 1
     /\ prep.calls.assets_read = IF prep.fetch = "pages_fail" THEN 0 ELSE 1
     /\ prep.calls.cdp_read = IF prep.fetch = "cdp_fail" THEN 1 ELSE 0
     /\ prep.fetch = "cdp_fail" => prep.customer_uid # ""
     /\ prep.calls.research = 0
     /\ prep.calls.page_selection = 0
     /\ prep.customer_information = NoInformation
     /\ prep.pages_to_personalize = <<>>
     /\ \A w \in Workflows : pc[w] = "idle" /\ hist[w] = NoHist
     /\ store = <<>>
     /\ prep.pc \in {"AnalyzeCompany", "DecidePagesToPers", "ParallelProcessing", "END", "idle"}
     /\ prep.response \in {0, 500}

C19_Witness ==
  /\ prep.fetch = "cdp_fail"
  /\ prep.response = 500
  /\ prep.pc = "idle"
  /\ prep.calls = [NoCalls EXCEPT !.pages_read = 1, !.assets_read = 1, !.cdp_read = 1]

\* C20 (as claimed): the research agent is invoked at most twice per request.
C20_AtMostTwoResearchCalls == prep.calls.research <= 2

\* A research call that ended with an industry.
IsFound(a) == a.industry \notin {"not found", "raised"}
\* AnalyzeCompany has returned to the graph and DecidePagesToPers has not begun.
AnalyzeDone == prep.pc = "DecidePagesToPers" /\ prep.calls.page_selection = 0

\* C21 (as claimed, for a request that carries a customer_uid): when the first
\* research call failed and the second found an industry, AnalyzeCompany ends with
\* error_occurred false and with the profile of a call that found one.
C21_RetriedAnalysisSucceeds ==
  (AnalyzeDone /\ prep.customer_uid # "" /\ Len(prep.answers) >= 2
     /\ ~IsFound(prep.answers[1]) /\ IsFound(prep.answers[2])) =>
     /\ ~prep.error_occurred
     /\ \E i \in 1..Len(prep.answers) :
          /\ IsFound(prep.answers[i])
          /\ prep.customer_information = CustomerInformation(prep.answers[i], prep.customer_uid)

\* C22 (as claimed): a request that DecidePagesToPers failed has made two page
\* selections, both of which raised; no request makes more than two.
C22_PageSelectionRetriedOnce ==
  /\ prep.calls.page_selection <= 2
  /\ (prep.error_occurred /\ prep.error_message = "decide pages: exception"
        /\ prep.pc \in {"ParallelProcessing", "END", "idle"}) =>
       prep.calls.page_selection = 2

\* C23 (as claimed): a request with customer_organization and without customer_uid
\* whose first research call found an industry ends AnalyzeCompany with
\* error_occurred false and a profile.
C23_OrganizationOnlyRequest ==
  (AnalyzeDone /\ prep.customer_uid = ""
     /\ prep.customer_organization \notin {"absent", "null"}
     /\ prep.answers # <<>> /\ IsFound(prep.answers[1])) =>
     /\ ~prep.error_occurred
     /\ "industry" \in DOMAIN prep.customer_information

\* C24 (as claimed): after a component decision that raised or answered with an
\* empty list the workflow does not raise, its next attempt is the component
\* decision again, and a second failure of it ends the workflow with an Error
\* record and an empty queue.
C24_ComponentDecisionRetried ==
  \A w \in Workflows :
    (Len(Att(w)) >= 1 /\ Att(w)[1].step = "decide" /\ ~Att(w)[1].ok) =>
       /\ pc[w] # "raised"
       /\ Len(Att(w)) >= 2 => Att(w)[2].step = "decide"
       /\ pc[w] = "end" =>
            /\ Len(Att(w)) >= 2
            /\ ~Att(w)[2].ok => (page[w].Error /\ queue[w] = <<>>)

\* C25: a profile AnalyzeCompany stored is that of the last research call that
\* found an industry: its industry is neither 'not found' nor missing, it holds
\* company_size exactly if the answer's was not -1 and country exactly if the
\* answer's was not 'not found', with the answer's values, and nothing else but
\* the customer_uid of the request.
C25_ProfileWithoutSentinels ==
  "industry" \in DOMAIN prep.customer_information =>
    LET info == prep.customer_information
    IN /\ info.industry # "not found"
       /\ DOMAIN info \subseteq {"industry", "customer_uid", "company_size", "country"}
       /\ info.customer_uid = prep.customer_uid /\ prep.customer_uid # ""
       /\ "company_size" \in DOMAIN info => info.company_size # -1
       /\ "country" \in DOMAIN info => info.country # "not found"
       /\ \E i \in 1..Len(prep.answers) :
            LET a == prep.answers[i]
            IN /\ IsFound(a)
               /\ \A j \in (i + 1)..Len(prep.answers) : ~IsFound(prep.answers[j])
               /\ info.industry = a.industry
               /\ "company_size" \in DOMAIN info <=> a.company_size # -1
               /\ "company_size" \in DOMAIN info => info.company_size = a.company_size
               /\ "country" \in DOMAIN info <=> a.country # "not found"
               /\ "country" \in DOMAIN info => info.country = a.country

C25_Witness ==
  /\ AnalyzeDone
  /\ ~prep.error_occurred
  /\ prep.answers = <<NotFound, FoundIndustryOnly>>
  /\ DOMAIN prep.customer_information = {"industry", "customer_uid"}
  /\ prep.customer_information.industry = "Software"

\* C26: the pages handed to the fan-out are entries of page_list with a title the
\* selection named and with at least one block, in the order named; a selection
\* that is answered, whatever it names, neither sets error_occurred nor touches
\* is_retry_step.
C26_SelectedPagesHaveBlocks ==
  /\ [][(\E titles \in PageSelections : decide_pages_to_personalize_node(titles)) =>
          /\ ~prep'.error_occurred
          /\ prep'.is_retry_step = prep.is_retry_step
          /\ prep'.error_message = prep.error_message
          /\ prep'.pc = "ParallelProcessing"
          /\ \A p \in PageIds :
               (pageObj[p].title \in Range(prep'.named) /\ pageObj[p].blocks # <<>>)
                  => p \in Range(prep'.pages_to_personalize)]_vars
  /\ [](\A i \in 1..Len(prep.pages_to_personalize) :
          LET p == prep.pages_to_personalize[i]
          IN /\ p \in PageIds
             /\ pageObj[p].title \in Range(prep.named)
             /\ pageObj[p].blocks # <<>>)

C26_Witness ==
  /\ prep.pc = "ParallelProcessing"
  /\ prep.named = <<"Home", "About">>
  /\ pageObj[2].title = "About" /\ pageObj[2].blocks = <<>>
  /\ prep.pages_to_personalize = <<1>>
  /\ ~prep.error_occurred /\ ~prep.is_retry_step
  /\ prep.calls.page_selection = 1

\* C30: a request whose CDP profile holds a free-mail domain makes no research
\* call, takes no retry, selects no page and starts no page workflow, and once
\* AnalyzeCompany has returned it is marked failed; it is answered 500.
C30_FreeMailFailsAtOnce ==
  prep.customer_profile \in FreeMailDomains =>
     /\ prep.calls.research = 0
     /\ prep.calls.page_selection = 0
     /\ ~prep.is_retry_step
     /\ prep.customer_information = NoInformation
     /\ prep.pages_to_personalize = <<>>
     /\ \A w \in Workflows : pc[w] = "idle" /\ hist[w] = NoHist
     /\ store = <<>>
     /\ prep.pc \in {"AnalyzeCompany", "DecidePagesToPers", "ParallelProcessing", "END", "idle"}
     /\ prep.pc # "AnalyzeCompany" =>
          prep.error_occurred /\ prep.error_message = "analyze: not a business email"
     /\ prep.response \in {0, 500}

C30_Witness ==
  /\ prep.customer_profile = "outlook.com"
  /\ prep.customer_organization = "Acme"
  /\ prep.pc = "idle" /\ prep.response = 500
  /\ prep.body = "analyze: not a business email"

\* C27: the document a successful Save writes carries the customer_uid of the
\* request its workflow belongs to, and every document saved by a request carries
\* the customer_uid of some request.
C27_SavedDocumentCarriesCustomer ==
  /\ [][\A w \in Workflows :
          (pc[w] = "SavePersPageWrite" /\ save_personalized_page_node(w) /\ NewAttempt(w).ok) =>
            LET T == pageObj[page[w].ref].title
                at == IF local[w].count = 0 THEN Len(store) + 1 ELSE FirstMatch(T)
            IN /\ prep.customer_uid \in Customers
               /\ store'[at].title = T
               /\ store'[at].customer_uid = prep.customer_uid]_vars
  /\ [](\A i \in 1..Len(store) :
          "seo" \in DOMAIN store[i] \/ store[i].customer_uid \in Customers)

C27_Witness ==
  /\ Len(store) = 2
  /\ store[1].title = "Home" /\ "seo" \notin DOMAIN store[1]
  /\ store[1].customer_uid = OtherCustomerUid
  /\ store[2].title = "About" /\ store[2].customer_uid = CustomerUid
  /\ prep.customer_uid = OtherCustomerUid
  /\ prep.requests = 2

\* C28 (as claimed): a request is answered 400, with nothing of the preparation
\* flow run, exactly if its payload has neither key; any other request is answered
\* once the preparation flow has ended: 500 with error_message if error_occurred is
\* true, 200 if it is false.
C28_PostAnswers ==
  /\ prep.response \in {0, 200, 400, 500}
  /\ prep.response = 400 =>
       /\ prep.customer_uid = "" /\ prep.customer_organization = "absent"
       /\ prep.body = "Bad Request Error"
       /\ prep.fetch = "none" /\ prep.calls = NoCalls
       /\ \A w \in Workflows : pc[w] = "idle"
  /\ prep.response \in {200, 500} =>
       /\ prep.customer_uid # "" \/ prep.customer_organization # "absent"
       /\ prep.pc = "idle"
       /\ prep.fetch # "none"
  /\ prep.response = 500 => prep.error_occurred /\ prep.body = prep.error_message
  /\ prep.response = 200 => ~prep.error_occurred /\ prep.joined /\ prep.body = "Success"

\* The positions of the documents of customer c whose url is u.
Matching(c, u) == {i \in 1..Len(store) : store[i].customer_uid = c /\ store[i].url = u}

\* C29: a retrieval leaves the store as it is; it answers 404 if no document has
\* the customer_uid of the path and the url '/' followed by the slug, and else 200
\* with those documents, each once, in the order of the store, without their _id;
\* a retrieval whose query raises answers 500.
C29_RetrievalAnswers ==
  /\ [][\A c \in Customers : \A slug \in Slugs :
          retrieve_personalized_pages(c, slug) =>
            LET m == Matching(c, "/" \o slug)
                docs == prep'.got.docs
            IN /\ store' = store
               /\ prep'.got.status = IF m = {} THEN 404 ELSE 200
               /\ Len(docs) = Cardinality(m)
               /\ \A i \in m :
                    LET k == Cardinality({j \in m : j <= i})
                    IN /\ DOMAIN docs[k] = DOMAIN store[i] \ {"_id"}
                       /\ \A f \in DOMAIN docs[k] : docs[k][f] = store[i][f]]_vars
  /\ [][retrieve_personalized_pages_raise =>
          store' = store /\ prep'.got = [status |-> 500, docs |-> <<>>]]_vars
  /\ [](/\ prep.got.status \in {0, 200, 404, 500}
        /\ prep.got.status = 200 <=> prep.got.docs # <<>>)

C29_Witness ==
  /\ Len(store) = 2
  /\ store[1].customer_uid = OtherCustomerUid /\ store[2].customer_uid = CustomerUid
  /\ store[1].url = "/home" /\ store[2].url = "/about"
  /\ prep.got.status = 200
  /\ Len(prep.got.docs) = 1
  /\ prep.got.docs[1].url = "/about" /\ prep.got.docs[1].customer_uid = CustomerUid
  /\ "_id" \notin DOMAIN prep.got.docs[1]

\* The blocks of a page as the fetch left them.
OrigContent == [u \in Range(AllUids) |-> OrigBlock(u)]

\* C31: the completions of the blocks of one page run concurrently and are all
\* joined before anything is written back: while they run the blocks are as the
\* step found them and every completion is prompted with those blocks; when they
\* have all finished, in whatever order, block i receives the title and copy of
\* the completion of block i, and the list of blocks (number, order, uids) and the
\* images are as before the step.
C31_TextsJoinedThenWrittenInOrder ==
  /\ [](\A w \in Workflows :
          pc[w] = "PersTextsGather" =>
            /\ blk[page[w].ref] = OrigContent
            /\ pageObj[page[w].ref].blocks = local[w].block_list
            /\ \A i \in DOMAIN local[w].prompts :
                 local[w].prompts[i] = [block_list |-> pageObj[page[w].ref].blocks,
                                        block |-> pageObj[page[w].ref].blocks[i],
                                        content |-> OrigContent])
  /\ [][\A w \in Workflows :
          personalize_texts_gathered(w) =>
            LET p == page[w].ref
                bl == pageObj[p].blocks
            IN /\ DOMAIN local[w].prompts = 1..Len(bl)
               /\ pageObj'[p].blocks = bl
               /\ \A i \in 1..Len(bl) :
                    /\ blk'[p][bl[i]].title = local[w].results[i].title
                    /\ blk'[p][bl[i]].copy = local[w].results[i].copytext
                    /\ blk'[p][bl[i]].image = blk[p][bl[i]].image
               /\ \A u \in Range(AllUids) \ Range(bl) : blk'[p][u] = blk[p][u]]_vars

\* The two blocks of a page have received different texts, each its own.
C31_Witness ==
  \E w \in Workflows :
    /\ Att(w) # <<>> /\ LastAttempt(w).step = "text" /\ LastAttempt(w).ok
    /\ Len(hist[w].resp) = 2
    /\ hist[w].resp[1] = GenText("a") /\ hist[w].resp[2] = GenText("b")
    /\ blk[page[w].ref]["u1"].copy = "gen_copy_a"
    /\ blk[page[w].ref]["u2"].copy = "gen_copy_b"
    /\ pageObj[page[w].ref].blocks = <<"u1", "u2">>

\* The attempts of workflow w at step s that failed.
FailuresOf(w, s) == {i \in 1..Len(Att(w)) : Att(w)[i].step = s /\ ~Att(w)[i].ok}

\* C32: every successful text, image or order step clears is_retry_step, so each
\* step has a retry of its own: the first attempt of every step begins with the
\* flag false, and a workflow in which no step failed more than once carries no
\* Error record and ends having completed text, image and order, in that order,
\* and attempted Save.
C32_EachStepHasItsOwnRetry ==
  /\ [][\A w \in Workflows :
          Attempted(w) /\ NewAttempt(w).ok /\ NewAttempt(w).step \in Retried =>
            ~retry'[w]]_vars
  /\ [](\A w \in Workflows :
          /\ \A i \in 1..Len(Att(w)) :
               (i = 1 \/ Att(w)[i - 1].step # Att(w)[i].step) => ~Att(w)[i].wasRetry
          /\ (\A s \in Retried : Cardinality(FailuresOf(w, s)) <= 1) =>
               /\ ~page[w].Error
               /\ pc[w] = "end" =>
                    /\ Completed(Att(w)) \in {AllSteps, AllSteps \o <<"save">>}
                    /\ LastAttempt(w).step = "save")

\* Text, image and order have each failed once and then succeeded, and the page
\* has been saved.
C32_Witness ==
  \E w \in Workflows :
    /\ pc[w] = "end"
    /\ ~page[w].Error
    /\ \A s \in Retried : Cardinality(FailuresOf(w, s)) = 1
    /\ Completed(Att(w)) = AllSteps \o <<"save">>
    /\ Len(store) = 1

\* C33 (as claimed): an image step succeeds only when at least two distinct
\* blocks of the page have received an image; an answer that places an image on
\* fewer than two blocks is a failed attempt.
C33_SuccessPlacesTwoImages ==
  \A w \in Workflows :
    (JustAttempted(w) /\ LastAttempt(w).step = "image" /\ ~hist[w].raised) =>
      LET bd == BlockDetails(hist[w].resp[2], hist[w].pre.blocks)
      IN /\ LastAttempt(w).ok => Cardinality(Range(bd)) >= 2
         /\ Cardinality(Range(bd)) < 2 => ~LastAttempt(w).ok

\* The workflows whose Save wrote to the store.
Saved == {w \in Workflows : Att(w) # <<>> /\ LastAttempt(w).step = "save" /\ LastAttempt(w).ok}

\* C34 (as claimed): each Save is an atomic upsert: when the Saves of two pages
\* with the same title run side by side, the store ends with exactly one document
\* of that title.
C34_OneDocumentPerTitle ==
  \A w \in Saved :
    pc[w] = "end" => CountDocuments(pageObj[PageOf(w)].title) = 1

\* The attempts of workflow w at the steps of its queue.
StepAttempts(w) == {i \in 1..Len(Att(w)) : Att(w)[i].step # "decide"}

\* The queue of workflow w was created with known step names only.
KnownQueue(w) == hist[w].initQ # <<>> /\ Range(hist[w].initQ) \subseteq KnownSteps

\* C35: a page workflow whose queue holds only the names text, image, order and
\* save makes at most two attempts per step of the queue, and, under any pattern
\* of successes and failures, reaches the end state; the join of the fan-out then
\* completes.
C35_WorkflowsTerminate ==
  /\ [](\A w \in Workflows :
          KnownQueue(w) => Cardinality(StepAttempts(w)) <= 2 * Len(hist[w].initQ))
  /\ \A w \in Workflows : KnownQueue(w) ~> pc[w] = "end"
  /\ (\A w \in Launched : KnownQueue(w)) /\ Launched # {} ~> prep.joined

\* A queue of three steps has ended after five attempts, and the join has completed.
C35_Witness ==
  \E w \in Workflows :
    /\ KnownQueue(w) /\ Len(hist[w].initQ) = 3
    /\ Cardinality(StepAttempts(w)) = 5
    /\ pc[w] = "end"
    /\ prep.joined

\* C36 (as claimed): if the fan-out is joined with error_occurred false, the Save
\* step of every page of pages_to_personalize has completed a successful insert
\* or replace.
C36_SuccessMeansEveryPageSaved ==
  (prep.joined /\ ~prep.error_occurred) => \A w \in Launched : w \in Saved

\* The steps workflow w has completed are the first steps of its queue, in order.
CompletedInQueueOrder(w) ==
  LET done == Completed(Att(w))
  IN /\ Len(done) <= Len(hist[w].initQ)
     /\ done = SubSeq(hist[w].initQ, 1, Len(done))

\* C37: the steps of a page's queue succeed in queue order, and Save runs only
\* when every step before it in the queue has succeeded; a workflow that failed
\* fatally never runs Save, so a page replaced by an Error record is never
\* written to the store.
C37_SaveOnlyAfterAllStepsSucceeded ==
  /\ [](\A w \in Workflows :
          /\ hist[w].initQ # <<>> => CompletedInQueueOrder(w)
          /\ pc[w] \in {"SavePersPage", "SavePersPageWrite"} =>
               /\ ~page[w].Error /\ ~FatallyFailed(w)
               /\ Len(Completed(Att(w))) < Len(hist[w].initQ)
               /\ hist[w].initQ[Len(Completed(Att(w))) + 1] = "save"
          /\ page[w].Error => w \notin Saved)
  /\ [][store' # store =>
          \E w \in Workflows :
            /\ pc[w] = "SavePersPageWrite" /\ pc'[w] = "end"
            /\ ~page[w].Error /\ ~FatallyFailed(w)
            /\ store' \in { Append(store, [Document(page[w].ref) EXCEPT !._id = NewId]),
                            ReplaceOne(pageObj[page[w].ref].title, Document(page[w].ref)) }]_vars

\* A queue of three steps whose first step failed once has been completed in
\* order and the page has been saved.
C37_Witness ==
  \E w \in Workflows :
    /\ pc[w] = "end" /\ w \in Saved
    /\ Len(hist[w].initQ) = 3
    /\ Completed(Att(w)) = hist[w].initQ
    /\ \E i \in 1..Len(Att(w)) : FailedFirst(Att(w)[i])
    /\ Len(store) = 1

\* C38 (as claimed): the documents saved for one customer stay retrievable for
\* that customer: a Save made for another customer does not remove or change
\* what a retrieval for the first customer returns, whatever the slug.
C38_OtherCustomersPagesKept ==
  [][\A w \in Workflows : \A c \in Customers : \A slug \in Slugs :
       (save_personalized_page_node(w) /\ c # prep.customer_information.customer_uid) =>
         Find(store', c, "/" \o slug) = Find(store, c, "/" \o slug)]_vars

====
